------------------------- MODULE MqttClient_proofs -------------------------
(***************************************************************************)
(* Proofs about MqttClient, for every keep-alive, socket timeout, gap      *)
(* between calls of loop(), latency, backlog and identifier space that     *)
(* satisfy the assumptions of that module.                                 *)
(*                                                                         *)
(* The inductive invariant IInv says, besides the types, what a session    *)
(* can look like (Shape), what may come before the CONNACK (Handshake),    *)
(* where the answer to a ping can be (Ledger), how old the two timers can  *)
(* be while that answer is on its way (Timing), and how long a dead broker *)
(* can have been dead (Silence).                                           *)
(***************************************************************************)
EXTENDS MqttClient, TLAPS

\* The time the packets behind position i of the socket's queue may take, each
\* read by a call of its own.
Slack(i) == (Backlog + 1 - i) * MaxGap

Positions == 1..Len(rx)

Shape ==
    /\ sock = "closed" => rx = <<>> /\ owed = "none" /\ peer = "none"
    /\ sock = "open" => peer # "none"
    /\ sock = "open" /\ phase # "await" => state = "CONNECTED"
    /\ phase = "await" => state # "CONNECTED" /\ nextMsgId = 1
    /\ state = "CONNECTED" => nextMsgId # 0
    /\ owed # "none" => peer = "live" /\ Len(rx) <= Backlog
    /\ peer = "live" => heardAge <= outAge

Handshake ==
    /\ owed = "CONNACK" => phase = "await" /\ rx = <<>>
    /\ phase = "await" =>
          /\ inAge = outAge /\ inAge <= SocketTimeout
          /\ owed # "PINGRESP"
          /\ \A i \in Positions : rx[i] # "PINGRESP"
          /\ peer = "dead" /\ rx # <<>> => deadFor = 0
          /\ peer = "live" /\ rx = <<>> => owed = "CONNACK" /\ inAge <= owedAge

Ledger ==
    Connected =>
        /\ owed = "PINGRESP" => pingOutstanding
        /\ \A i \in Positions :
              rx[i] = "PINGRESP" =>
                  /\ pingOutstanding /\ owed # "PINGRESP"
                  /\ \A j \in Positions : rx[j] = "PINGRESP" => i = j
        /\ pingOutstanding /\ peer = "live" =>
              owed = "PINGRESP" \/ \E i \in Positions : rx[i] = "PINGRESP"

Timing ==
    Connected =>
        /\ inAge <= KeepAlive + sinceLoop /\ outAge <= KeepAlive + sinceLoop
        /\ owed = "PINGRESP" => inAge <= owedAge /\ outAge <= owedAge /\ sinceLoop <= owedAge
        /\ \A i \in Positions :
              rx[i] = "PINGRESP" =>
                  /\ inAge <= Latency + Slack(i) + sinceLoop
                  /\ outAge <= Latency + Slack(i) + sinceLoop

Silence ==
    Connected /\ peer = "dead" =>
        /\ \A i \in Positions : i = Len(rx) => deadFor <= Slack(i) + sinceLoop
        /\ rx = <<>> /\ ~pingOutstanding => deadFor <= Slack(0) + inAge
        /\ rx = <<>> /\ pingOutstanding => deadFor <= Slack(0) + KeepAlive + MaxGap + inAge

IInv == TypeOK /\ Shape /\ Handshake /\ Ledger /\ Timing /\ Silence

-----------------------------------------------------------------------------
(* Arithmetic and sequences. *)

\* The constants as the steps below use them: numbers, of which the intervals
\* are positive and the socket timeout is no longer than the keep-alive.
LEMMA ConstantsOK ==
    /\ KeepAlive \in Nat /\ MaxGap \in Nat /\ Latency \in Nat /\ Backlog \in Nat
    /\ SocketTimeout \in Nat /\ SocketTimeout <= KeepAlive /\ Latency < SocketTimeout
    /\ KeepAlive > 0 /\ MaxGap > 0 /\ 2 * MaxGap <= KeepAlive
    /\ IdSpace \in Nat /\ IdSpace > 2
  BY KeepAliveAssumption, SocketTimeoutAssumption, MaxGapAssumption, LatencyAssumption,
     BacklogAssumption, IdSpaceAssumption, PromptLoopAssumption

\* One call of loop() moves the queue of the socket up by one position, and has
\* one gap less to wait.
LEMMA SlackStep ==
    ASSUME NEW i \in Int
    PROVE  Slack(i) \in Int /\ Slack(i) = Slack(i + 1) + MaxGap
<1> DEFINE n == Backlog - i
<1>1. n \in Int /\ Backlog + 1 - i = n + 1 /\ Backlog + 1 - (i + 1) = n
  BY ConstantsOK
<1>2. (n + 1) * MaxGap = n * MaxGap + MaxGap
  <2> HIDE DEF n
  <2> QED  BY <1>1, ConstantsOK
<1>3. n * MaxGap \in Int
  <2> HIDE DEF n
  <2> QED  BY <1>1, ConstantsOK
<1> QED  BY <1>1, <1>2, <1>3, ConstantsOK DEF Slack

\* The slack of a position is never negative and never more than that of the
\* whole queue, which with the latency fits the keep-alive interval.
LEMMA SlackBounds ==
    /\ Slack(0) \in Nat /\ Slack(0) = (Backlog + 1) * MaxGap
    /\ Latency + Slack(0) <= KeepAlive
    /\ \A i \in 1..(Backlog + 1) : Slack(i) \in Nat /\ Slack(i) + MaxGap <= Slack(0)
<1>1. Slack(0) = (Backlog + 1) * MaxGap
  BY ConstantsOK DEF Slack
<1>2. ASSUME NEW n \in Nat  PROVE n * MaxGap \in Nat
  BY <1>2, ConstantsOK
<1>3. Slack(0) \in Nat
  BY <1>1, <1>2, ConstantsOK
<1>4. Latency + Slack(0) <= KeepAlive
  BY <1>1, PromptLoopAssumption
<1>5. ASSUME NEW i \in 1..(Backlog + 1)  PROVE Slack(i) \in Nat /\ Slack(i) + MaxGap <= Slack(0)
  <2> DEFINE n == Backlog + 1 - i
             m == i - 1
  <2>1. n \in Nat /\ m \in Nat /\ Backlog + 1 = n + m + 1
    BY ConstantsOK
  <2>2. n * MaxGap \in Nat /\ m * MaxGap \in Nat
    <3> HIDE DEF n, m
    <3> QED  BY <1>2, <2>1
  <2>3. (n + m + 1) * MaxGap = n * MaxGap + m * MaxGap + MaxGap
    <3> HIDE DEF n, m
    <3> QED  BY <2>1, ConstantsOK
  <2>4. Slack(i) = n * MaxGap
    BY DEF Slack
  <2>5. Slack(0) = n * MaxGap + m * MaxGap + MaxGap
    BY <1>1, <2>1, <2>3
  <2> HIDE DEF n, m
  <2> QED  BY <2>2, <2>4, <2>5, ConstantsOK
<1> QED  BY <1>1, <1>3, <1>4, <1>5

\* Reading the first packet of the socket moves the others up by one.
LEMMA TailFacts ==
    ASSUME NEW s \in Seq(Packets), s # <<>>
    PROVE  /\ Len(s) \in Nat \ {0} /\ Head(s) = s[1] /\ Head(s) \in Packets
           /\ Tail(s) \in Seq(Packets) /\ Len(Tail(s)) = Len(s) - 1
           /\ \A i \in 1..Len(Tail(s)) : i + 1 \in 1..Len(s) /\ Tail(s)[i] = s[i + 1]
  OBVIOUS

\* A packet that arrives goes behind the others.
LEMMA AppendFacts ==
    ASSUME NEW s \in Seq(Packets), NEW p \in Packets
    PROVE  /\ Append(s, p) \in Seq(Packets) /\ Len(Append(s, p)) = Len(s) + 1
           /\ Len(s) \in Nat /\ Append(s, p) # <<>>
           /\ Append(s, p)[Len(s) + 1] = p
           /\ \A i \in 1..Len(s) : Append(s, p)[i] = s[i]
  OBVIOUS

\* The empty socket holds nothing.
LEMMA EmptyFacts ==
    /\ <<>> \in Seq(Packets) /\ Len(<<>>) = 0
    /\ \A s \in Seq(Packets) : Len(s) \in Nat /\ (s = <<>> <=> Len(s) = 0)
  OBVIOUS

-----------------------------------------------------------------------------
(* The invariant holds at first and is kept by every step. *)

LEMMA InitIInv == Init => IInv
  BY ConstantsOK, EmptyFacts
     DEF Init, IInv, TypeOK, Shape, Handshake, Ledger, Timing, Silence, Connected, Positions, States

\* What the steps below need to know of a position of the queue.
LEMMA PositionFacts ==
    ASSUME TypeOK
    PROVE  /\ Len(rx) \in Nat /\ (rx = <<>> <=> Len(rx) = 0)
           /\ \A i \in Positions : i \in 1..(Backlog + 1) /\ Slack(i) \in Nat
<1>1. Len(rx) \in Nat /\ (rx = <<>> <=> Len(rx) = 0) /\ Len(rx) <= Backlog + 1
  BY EmptyFacts DEF TypeOK
<1>2. \A i \in Positions : i \in 1..(Backlog + 1)
  BY <1>1, ConstantsOK DEF Positions
<1> QED  BY <1>1, <1>2, SlackBounds

\* The calls that leave the socket closed keep the invariant: without a
\* connection there is no answer to keep account of.
LEMMA ClosingSteps ==
    ASSUME IInv, ConnectTimesOut \/ LoopGivesUp \/ Disconnect \/ SocketDrops
    PROVE  IInv'
<1> USE DEF IInv, Connected
<1>1. CASE ConnectTimesOut
  <2>1. TypeOK'
    BY <1>1, EmptyFacts, ConstantsOK DEF ConnectTimesOut, CloseSocket, TypeOK, States, Shape
  <2> QED
    BY <1>1, <2>1
       DEF ConnectTimesOut, CloseSocket, Shape, Handshake, Ledger, Timing, Silence, Positions
<1>2. CASE LoopGivesUp
  <2>1. TypeOK'
    BY <1>2, EmptyFacts, ConstantsOK DEF LoopGivesUp, CloseSocket, TypeOK, States, Shape
  <2> QED
    BY <1>2, <2>1
       DEF LoopGivesUp, CloseSocket, Shape, Handshake, Ledger, Timing, Silence, Positions
<1>3. CASE Disconnect
  <2>1. TypeOK'
    BY <1>3, EmptyFacts, ConstantsOK DEF Disconnect, CloseSocket, TypeOK, States, Shape
  <2> QED
    BY <1>3, <2>1
       DEF Disconnect, CloseSocket, Shape, Handshake, Ledger, Timing, Silence, Positions
<1>4. CASE SocketDrops
  <2>1. TypeOK'
    BY <1>4, EmptyFacts, ConstantsOK DEF SocketDrops, CloseSocket, TypeOK, States, Shape
  <2> QED
    BY <1>4, <2>1, EmptyFacts
       DEF SocketDrops, CloseSocket, Shape, Handshake, Ledger, Timing, Silence, Positions
<1> QED  BY <1>1, <1>2, <1>3, <1>4

\* So do the steps of a client without a connection.
LEMMA UnconnectedSteps ==
    ASSUME IInv, ConnectFails \/ LoopFindsLoss \/ ConnectSends
    PROVE  IInv'
<1> USE DEF IInv, Connected
<1>1. CASE ConnectFails
  <2>1. TypeOK'
    BY <1>1 DEF ConnectFails, brokerVars, TypeOK, States
  <2> QED
    BY <1>1, <2>1
       DEF ConnectFails, brokerVars, Shape, Handshake, Ledger, Timing, Silence, Positions
<1>2. CASE LoopFindsLoss
  <2>1. TypeOK'
    BY <1>2 DEF LoopFindsLoss, NoticeLoss, brokerVars, TypeOK, States
  <2> QED
    BY <1>2, <2>1
       DEF LoopFindsLoss, NoticeLoss, brokerVars, Shape, Handshake, Ledger, Timing, Silence, Positions
<1>3. CASE ConnectSends
  <2>1. TypeOK'
    BY <1>3, ConstantsOK DEF ConnectSends, NoticeLoss, TypeOK, States
  <2>2. Shape'
    BY <1>3, EmptyFacts, ConstantsOK DEF ConnectSends, NoticeLoss, Shape, TypeOK
  <2>3. Handshake'
    BY <1>3, EmptyFacts, ConstantsOK DEF ConnectSends, NoticeLoss, Shape, Handshake, Positions
  <2>4. state' # "CONNECTED"
    BY <1>3 DEF ConnectSends, NoticeLoss
  <2> QED
    BY <2>1, <2>2, <2>3, <2>4 DEF Ledger, Timing, Silence
<1> QED  BY <1>1, <1>2, <1>3

\* The first packet after CONNECT.  A CONNACK opens a session that has asked
\* for no ping: Handshake says that none of the packets behind it answers one.
LEMMA AnsweredStep ==
    ASSUME IInv, ConnectAnswered
    PROVE  IInv'
<1> USE DEF IInv, Connected
<1>1. /\ Len(rx) \in Nat \ {0} /\ Tail(rx) \in Seq(Packets) /\ Len(Tail(rx)) = Len(rx) - 1
      /\ \A i \in 1..Len(Tail(rx)) : i + 1 \in 1..Len(rx) /\ Tail(rx)[i] = rx[i + 1]
  BY TailFacts DEF TypeOK, ConnectAnswered
<1>2. /\ owed = "none" /\ phase = "await" /\ rx # <<>> /\ nextMsgId = 1
      /\ phase' = "idle" /\ UNCHANGED <<outAge, nextMsgId>>
  BY DEF Shape, Handshake, TypeOK, ConnectAnswered
<1>3. CASE Head(rx) # "CONNACK"
  <2>1. /\ CloseSocket /\ state' \in {state, "REFUSED"}
        /\ UNCHANGED <<inAge, pingOutstanding, sinceLoop>>
    BY <1>3 DEF ConnectAnswered
  <2>2. TypeOK'
    BY <1>2, <2>1, EmptyFacts, ConstantsOK DEF TypeOK, CloseSocket, States, Shape
  <2> QED
    BY <1>2, <2>1, <2>2
       DEF Shape, Handshake, Ledger, Timing, Silence, CloseSocket, Positions
<1>4. CASE Head(rx) = "CONNACK"
  <2>1. /\ state' = "CONNECTED" /\ inAge' = 0 /\ pingOutstanding' = FALSE /\ sinceLoop' = 0
        /\ rx' = Tail(rx) /\ UNCHANGED <<sock, peer, owed, owedAge, heardAge, deadFor>>
    BY <1>4 DEF ConnectAnswered, PingAfterConnect, brokerVars
  <2>2. \A i \in 1..Len(rx') : rx'[i] # "PINGRESP"
    BY <1>1, <1>2, <2>1 DEF Handshake, Positions
  <2>3. rx' \in Seq(Packets) /\ Len(rx') \in Nat /\ Len(rx') <= Backlog
    BY <1>1, <2>1, ConstantsOK DEF TypeOK
  <2>4. TypeOK'
    <3>1. nextMsgId' \in 0..(IdSpace - 1) /\ nextMsgId' # 0 /\ state' \in States
      BY <1>2, <2>1, ConstantsOK DEF States
    <3>2. inAge' \in 0..(KeepAlive + MaxGap) /\ sinceLoop' \in 0..MaxGap /\ Len(rx') <= Backlog + 1
      BY <2>1, <2>3, ConstantsOK
    <3> QED  BY <1>2, <2>1, <2>3, <3>1, <3>2 DEF TypeOK
  <2>5. Shape'
    BY <1>2, <2>1, ConstantsOK DEF TypeOK, Shape
  <2>6. Handshake'
    BY <1>2, <2>1 DEF Handshake
  <2>7. Ledger'
    BY <1>2, <2>1, <2>2 DEF Ledger, Positions
  <2>8. Timing'
    BY <1>2, <2>1, <2>2, ConstantsOK DEF TypeOK, Handshake, Timing, Positions
  <2>9. Silence'
    <3>1. peer = "dead" => deadFor = 0
      BY <1>2 DEF Handshake
    <3>2. \A i \in 1..Len(rx') : Slack(i) \in Nat
      BY <2>3, SlackBounds, ConstantsOK
    <3> QED  BY <2>1, <3>1, <3>2, SlackBounds DEF Silence, Positions
  <2> QED  BY <2>4, <2>5, <2>6, <2>7, <2>8, <2>9
<1> QED  BY <1>3, <1>4

\* loop() with a session.  A ping is sent only when none is outstanding, so
\* the answer to it will be the only one; the packet read is the oldest, so
\* every other position moves up by one and has one gap less to wait.
LEMMA LoopStep ==
    ASSUME IInv, LoopRuns
    PROVE  IInv'
<1> DEFINE packet == IF rx = <<>> THEN "none" ELSE Head(rx)
<1> USE DEF IInv, Connected
<1>1. /\ state = "CONNECTED" /\ sock = "open" /\ phase = "idle" /\ peer \in {"live", "dead"}
      /\ owed \in {"none", "PINGRESP"} /\ (owed = "PINGRESP" => peer = "live")
  BY DEF TypeOK, Shape, Handshake, LoopRuns
<1>2. /\ rx' = IF rx = <<>> THEN rx ELSE Tail(rx)
      /\ sinceLoop' = 0 /\ inAge' \in {0, inAge} /\ outAge' \in {0, outAge}
      /\ phase' \in {"idle", "callback", "callback_qos1"}
      /\ heardAge' \in {0, heardAge} /\ pingOutstanding' \in BOOLEAN
      /\ UNCHANGED <<state, sock, nextMsgId, peer, deadFor>>
  BY DEF LoopRuns, BrokerHears, StillOutstanding
<1>3. /\ rx' \in Seq(Packets) /\ Len(rx') \in Nat /\ Len(rx') <= Len(rx) /\ Len(rx') <= Backlog
      /\ \A i \in 1..Len(rx') : i + 1 \in 1..Len(rx) /\ rx'[i] = rx[i + 1]
  <2>1. CASE rx = <<>>
    BY <1>2, <2>1, EmptyFacts, ConstantsOK DEF TypeOK
  <2>2. CASE rx # <<>>
    BY <1>2, <2>2, TailFacts, ConstantsOK DEF TypeOK
  <2> QED  BY <2>1, <2>2
<1>4. /\ rx # <<>> => Len(rx) = Len(rx') + 1 /\ packet = rx[1] /\ 1 \in 1..Len(rx)
      /\ rx = <<>> => packet = "none"
  BY <1>2, TailFacts DEF TypeOK
<1>5. \A i \in 1..Len(rx) : i = 1 \/ (i - 1 \in 1..Len(rx') /\ rx'[i - 1] = rx[i])
  BY <1>3, <1>4, EmptyFacts DEF TypeOK
<1>6. ASSUME peer = "dead", rx' # <<>>
      PROVE  deadFor' <= Slack(Len(rx')) /\ Slack(Len(rx')) \in Nat
  <2> DEFINE n == Len(rx')
  <2>1. n \in Nat /\ Len(rx) = n + 1 /\ n + 1 \in Positions /\ n + 1 \in 1..(Backlog + 1)
    BY <1>2, <1>3, <1>4, <1>6, EmptyFacts, ConstantsOK DEF Positions, TypeOK
  <2>2. deadFor <= Slack(n + 1) + sinceLoop
    BY <2>1, <1>1, <1>6 DEF Silence
  <2>3. Slack(n) = Slack(n + 1) + MaxGap /\ Slack(n + 1) \in Nat
    BY <2>1, SlackStep, SlackBounds
  <2> HIDE DEF n
  <2>4. deadFor <= Slack(n) /\ Slack(n) \in Nat
    BY <2>2, <2>3, ConstantsOK DEF TypeOK
  <2> QED  BY <2>4, <1>2 DEF n
<1>7. CASE PingDue
  <2>1. /\ ~pingOutstanding
        /\ inAge' = 0 /\ outAge' = 0
        /\ pingOutstanding' <=> packet # "PINGRESP"
        /\ peer = "live" => heardAge' = 0 /\ owed' = "PINGRESP" /\ owedAge' = 0
        /\ peer # "live" => owed' = owed /\ owedAge' = owedAge
    BY <1>7 DEF LoopRuns, MustGiveUp, StillOutstanding, BrokerHears
  <2>2. (\A i \in 1..Len(rx) : rx[i] # "PINGRESP") /\ packet # "PINGRESP"
    BY <1>1, <1>4, <2>1 DEF Ledger, Positions
  <2>3. \A i \in 1..Len(rx') : rx'[i] # "PINGRESP"
    BY <1>3, <2>2
  <2> HIDE DEF packet
  <2>4. TypeOK'
    BY <1>1, <1>2, <1>3, <2>1, ConstantsOK DEF TypeOK, Shape
  <2>5. Shape'
    BY <1>1, <1>2, <1>3, <2>1, ConstantsOK DEF TypeOK, Shape
  <2>6. Handshake'
    BY <1>1, <1>2, <2>1 DEF Handshake
  <2>7. Ledger'
    BY <1>1, <1>2, <2>1, <2>2, <2>3 DEF Ledger, Positions
  <2>8. Timing'
    BY <1>1, <1>2, <2>1, <2>3, ConstantsOK DEF Timing, Positions, TypeOK
  <2>9. Silence'
    <3> SUFFICES ASSUME peer = "dead"  PROVE Silence'
      BY <1>2 DEF Silence
    <3>1. CASE rx' # <<>>
      BY <3>1, <1>2, <1>3, <1>6 DEF Silence, Positions
    <3>2. CASE rx' = <<>>
      <4>1. deadFor <= Slack(0) + KeepAlive + MaxGap
        <5>1. CASE rx = <<>>
          BY <5>1, <1>1, <2>1, SlackBounds, ConstantsOK DEF Silence, TypeOK
        <5>2. CASE rx # <<>>
          <6>1. Len(rx) = 1 /\ 1 \in Positions /\ 1 \in 1..(Backlog + 1)
            BY <5>2, <3>2, <1>4, EmptyFacts, ConstantsOK DEF Positions
          <6>2. deadFor <= Slack(1) + sinceLoop
            BY <6>1, <1>1 DEF Silence
          <6>3. Slack(1) \in Nat /\ Slack(0) \in Nat /\ Slack(1) + MaxGap <= Slack(0)
            BY <6>1, SlackBounds
          <6> QED  BY <6>2, <6>3, ConstantsOK DEF TypeOK
        <5> QED  BY <5>1, <5>2
      <4> QED
        BY <3>2, <4>1, <1>2, <2>1, <2>2, EmptyFacts, SlackBounds, ConstantsOK
           DEF Silence, Positions, TypeOK
    <3> QED  BY <3>1, <3>2
  <2> QED  BY <2>4, <2>5, <2>6, <2>7, <2>8, <2>9
<1>8. CASE ~PingDue
  <2>1. inAge <= KeepAlive /\ outAge <= KeepAlive
    BY <1>8, ConstantsOK DEF PingDue, TypeOK
  <2>2. /\ outAge' = outAge /\ owed' = owed /\ owedAge' = owedAge
        /\ pingOutstanding' <=> pingOutstanding /\ packet # "PINGRESP"
    BY <1>8 DEF LoopRuns, StillOutstanding, BrokerHears
  <2> HIDE DEF packet
  <2>4. TypeOK'
    BY <1>1, <1>2, <1>3, <2>2, ConstantsOK DEF TypeOK, Shape
  <2>5. Shape'
    BY <1>1, <1>2, <1>3, <2>2, ConstantsOK DEF TypeOK, Shape
  <2>6. Handshake'
    BY <1>1, <1>2, <2>2 DEF Handshake
  <2>7. Ledger'
    <3>1. CASE packet = "PINGRESP"
      <4>1. 1 \in Positions /\ rx[1] = "PINGRESP"
        BY <3>1, <1>4 DEF Positions
      <4>2. owed # "PINGRESP" /\ \A i \in 1..Len(rx') : rx'[i] # "PINGRESP"
        BY <4>1, <1>1, <1>3 DEF Ledger, Positions
      <4> QED  BY <3>1, <4>2, <2>2 DEF Ledger, Positions
    <3>2. CASE packet # "PINGRESP"
      <4>1. pingOutstanding' = pingOutstanding
        BY <3>2, <1>2, <2>2 DEF TypeOK
      <4>2. \A i \in 1..Len(rx) : rx[i] = "PINGRESP" => i # 1
        BY <3>2, <1>4, EmptyFacts DEF TypeOK
      <4>3. \A i \in Positions' : rx'[i] = "PINGRESP" => i + 1 \in Positions /\ rx[i + 1] = "PINGRESP"
        BY <1>3 DEF Positions
      <4>4. \A i \in Positions : rx[i] = "PINGRESP" => i - 1 \in Positions' /\ rx'[i - 1] = "PINGRESP"
        BY <4>2, <1>5 DEF Positions
      <4>5. \A i, j \in Positions' : i + 1 = j + 1 => i = j
        BY DEF Positions
      <4>6. owed' = "PINGRESP" => pingOutstanding'
        BY <4>1, <1>1, <2>2 DEF Ledger
      <4>7. ASSUME NEW i \in Positions', rx'[i] = "PINGRESP"
            PROVE  /\ pingOutstanding' /\ owed' # "PINGRESP"
                   /\ \A j \in Positions' : rx'[j] = "PINGRESP" => i = j
        BY <4>1, <4>3, <4>5, <4>7, <1>1, <2>2 DEF Ledger
      <4>8. ASSUME pingOutstanding', peer' = "live"
            PROVE  owed' = "PINGRESP" \/ \E i \in Positions' : rx'[i] = "PINGRESP"
        BY <4>1, <4>4, <4>8, <1>1, <1>2, <2>2 DEF Ledger
      <4> QED  BY <4>6, <4>7, <4>8 DEF Ledger
    <3> QED  BY <3>1, <3>2
  <2>8. Timing'
    <3>1. ASSUME NEW i \in 1..Len(rx'), rx'[i] = "PINGRESP"
          PROVE  inAge' <= Latency + Slack(i) /\ outAge' <= Latency + Slack(i) /\ Slack(i) \in Nat
      <4>1. /\ i + 1 \in Positions /\ rx[i + 1] = "PINGRESP"
            /\ i \in 1..(Backlog + 1) /\ i + 1 \in 1..(Backlog + 1)
        BY <3>1, <1>3, ConstantsOK DEF Positions, TypeOK
      <4>2. inAge <= Latency + Slack(i + 1) + sinceLoop /\ outAge <= Latency + Slack(i + 1) + sinceLoop
        BY <4>1, <1>1 DEF Timing
      <4>3. Slack(i) = Slack(i + 1) + MaxGap
        BY SlackStep
      <4>4. Slack(i) \in Nat /\ Slack(i + 1) \in Nat
        BY <4>1, SlackBounds
      <4>5. inAge \in Nat /\ outAge \in Nat /\ sinceLoop \in Nat /\ sinceLoop <= MaxGap
        BY ConstantsOK DEF TypeOK
      <4>6. inAge <= Latency + Slack(i) /\ outAge <= Latency + Slack(i)
        BY <4>2, <4>3, <4>4, <4>5, ConstantsOK
      <4> QED  BY <4>4, <4>6, <1>2, <2>2, ConstantsOK
    <3> QED
      BY <3>1, <1>1, <1>2, <2>1, <2>2, ConstantsOK DEF Timing, Positions, TypeOK
  <2>9. Silence'
    <3> SUFFICES ASSUME peer = "dead"  PROVE Silence'
      BY <1>2 DEF Silence
    <3>1. CASE rx' # <<>>
      BY <3>1, <1>2, <1>3, <1>6 DEF Silence, Positions
    <3>2. CASE rx' = <<>> /\ rx # <<>>
      <4>1. Len(rx) = 1 /\ 1 \in Positions /\ 1 \in 1..(Backlog + 1)
        BY <3>2, <1>4, EmptyFacts, ConstantsOK DEF Positions
      <4>2. deadFor <= Slack(0)
        BY <4>1, <1>1, SlackBounds, ConstantsOK DEF Silence, TypeOK
      <4>3. inAge' \in Nat /\ deadFor \in Nat /\ Len(rx') = 0
        BY <3>2, <2>4, EmptyFacts, ConstantsOK DEF TypeOK
      <4> QED
        BY <3>2, <4>2, <4>3, <1>2, SlackBounds, ConstantsOK DEF Silence, Positions
    <3>3. CASE rx = <<>>
      <4>1. rx' = <<>> /\ packet = "none" /\ inAge' = inAge
        BY <3>3, <1>2, <1>4, <1>8 DEF LoopRuns
      <4>2. pingOutstanding' = pingOutstanding
        BY <4>1, <1>2, <2>2 DEF TypeOK
      <4> QED
        BY <3>3, <4>1, <4>2, <1>1, <1>2, EmptyFacts DEF Silence, Positions
    <3> QED  BY <3>1, <3>2, <3>3
  <2> QED  BY <2>4, <2>5, <2>6, <2>7, <2>8, <2>9
<1> QED  BY <1>7, <1>8

\* The application's calls touch the timers only, and never make them older.
LEMMA CallerSteps ==
    ASSUME IInv, CallbackReturns \/ Publish \/ Subscribe
    PROVE  IInv'
<1> USE DEF IInv, Connected
<1>1. /\ sock' = sock /\ rx' = rx /\ peer' = peer /\ owed' = owed /\ owedAge' = owedAge
      /\ deadFor' = deadFor /\ inAge' = inAge /\ sinceLoop' = sinceLoop
      /\ pingOutstanding' = pingOutstanding
      /\ state' \in {state, "CONNECTION_LOST"} /\ (sock = "open" => state' = state)
      /\ phase # "await" /\ phase' \in {phase, "idle"}
      /\ outAge' \in {outAge, 0, sinceLoop}
      /\ heardAge' \in {heardAge, 0}
      /\ peer = "live" => (outAge' = outAge /\ heardAge' = heardAge) \/ heardAge' = 0
  BY DEF CallbackReturns, Publish, Subscribe, CallerRuns, NoticeLoss, BrokerHears, Shape
<1>2. nextMsgId' \in 0..(IdSpace - 1) /\ (nextMsgId # 0 => nextMsgId' # 0)
  BY ConstantsOK DEF CallbackReturns, Publish, Subscribe, NextId, TypeOK
<1>3. TypeOK'
  <2>1. /\ state' \in States /\ heardAge' \in Nat
        /\ outAge' \in 0..(KeepAlive + MaxGap)
        /\ phase' \in {"idle", "await", "callback", "callback_qos1"}
    BY <1>1, ConstantsOK DEF TypeOK, States
  <2> QED  BY <1>1, <1>2, <2>1 DEF TypeOK
<1>4. Shape'
  <2>1. peer' = "live" => heardAge' <= outAge'
    BY <1>1, ConstantsOK DEF TypeOK, Shape
  <2> QED  BY <1>1, <1>2, <2>1 DEF Shape
<1>5. Handshake'
  BY <1>1 DEF Handshake, TypeOK
<1>6. Ledger'
  BY <1>1 DEF Ledger, Positions
<1>7. Timing'
  <2> SUFFICES ASSUME Connected'  PROVE Timing'
    BY DEF Timing
  <2>1. Connected
    BY <1>1
  <2>2. outAge' <= KeepAlive + sinceLoop' /\ (owed = "PINGRESP" => outAge' <= owedAge)
    BY <1>1, <2>1, ConstantsOK DEF Timing, TypeOK
  <2>3. \A i \in Positions : rx[i] = "PINGRESP" => outAge' <= Latency + Slack(i) + sinceLoop
    BY <1>1, <2>1, PositionFacts, ConstantsOK DEF Timing, TypeOK
  <2> QED  BY <1>1, <2>1, <2>2, <2>3 DEF Timing, Positions
<1>8. Silence'
  BY <1>1 DEF Silence, Positions
<1> QED  BY <1>3, <1>4, <1>5, <1>6, <1>7, <1>8

\* The broker answers.  What it owed is behind every packet that waits, and its
\* age is that of the timers.
LEMMA AnswerStep ==
    ASSUME IInv, BrokerAnswers
    PROVE  IInv'
<1> USE DEF IInv, Connected
<1>1. PICK p \in {"CONNACK", "CONNACK_REFUSED", "PINGRESP"} :
        rx' = Append(rx, p) /\ (p = "PINGRESP" <=> owed = "PINGRESP")
  BY DEF BrokerAnswers, TypeOK
<1>2. /\ owed # "none" /\ peer = "live" /\ owed' = "none" /\ owedAge' = 0
      /\ UNCHANGED <<state, sock, phase, inAge, outAge, pingOutstanding, nextMsgId, sinceLoop,
                     peer, heardAge, deadFor>>
  BY DEF BrokerAnswers, clientVars
<1>3. /\ rx' \in Seq(Packets) /\ Len(rx') = Len(rx) + 1 /\ Len(rx) \in Nat /\ rx' # <<>>
      /\ rx'[Len(rx')] = p
      /\ \A i \in 1..Len(rx') : i = Len(rx') \/ (i \in 1..Len(rx) /\ rx'[i] = rx[i])
  BY <1>1, AppendFacts DEF TypeOK, Packets
<1>4. TypeOK'
  BY <1>2, <1>3, ConstantsOK DEF TypeOK, Shape
<1>5. Shape'
  BY <1>2, <1>3, ConstantsOK DEF TypeOK, Shape
<1>6. Handshake'
  BY <1>1, <1>2, <1>3 DEF TypeOK, Handshake, Positions
<1>7. Connected => owed = "PINGRESP" /\ \A i \in 1..Len(rx) : rx[i] # "PINGRESP"
  BY <1>2 DEF TypeOK, Handshake, Shape, Ledger, Positions
<1>8. Ledger'
  BY <1>1, <1>2, <1>3, <1>7 DEF Ledger, Positions
<1>9. Timing'
  <2>1. Len(rx') \in 1..(Backlog + 1) /\ Slack(Len(rx')) \in Nat
    BY <1>2, <1>3, SlackBounds, ConstantsOK DEF TypeOK, Shape
  <2>2. Connected => inAge <= Latency /\ outAge <= Latency
    BY <1>7, ConstantsOK DEF Timing, TypeOK
  <2> QED
    BY <1>1, <1>2, <1>3, <1>7, <2>1, <2>2, ConstantsOK DEF TypeOK, Timing, Positions
<1>10. Silence'
  BY <1>2 DEF Silence
<1> QED  BY <1>4, <1>5, <1>6, <1>8, <1>9, <1>10

\* The broker sends something of its own, which is no answer.
LEMMA UnaskedStep ==
    ASSUME IInv, BrokerSends
    PROVE  IInv'
<1> USE DEF IInv, Connected
<1>1. PICK p \in Unasked : rx' = Append(rx, p)
  BY DEF BrokerSends
<1>2. p \in Packets /\ p # "PINGRESP"
  BY DEF Packets, Unasked
<1>3. /\ rx' \in Seq(Packets) /\ Len(rx') = Len(rx) + 1 /\ Len(rx) \in Nat /\ rx' # <<>>
      /\ \A i \in 1..Len(rx') : rx'[i] = "PINGRESP" => i \in 1..Len(rx) /\ rx[i] = "PINGRESP"
      /\ \A i \in 1..Len(rx) : i \in 1..Len(rx') /\ rx'[i] = rx[i]
  BY <1>1, <1>2, AppendFacts DEF TypeOK
<1>4. /\ peer = "live" /\ owed # "CONNACK" /\ Len(rx) < Backlog
      /\ UNCHANGED <<clientVars, brokerVars>>
  BY DEF BrokerSends
<1> USE DEF clientVars, brokerVars
<1>5. TypeOK'
  BY <1>3, <1>4, ConstantsOK DEF TypeOK
<1>6. Shape'
  BY <1>3, <1>4, ConstantsOK DEF TypeOK, Shape
<1>7. Handshake'
  BY <1>3, <1>4 DEF TypeOK, Handshake, Positions
<1>8. Ledger'
  BY <1>3, <1>4 DEF TypeOK, Ledger, Positions
<1>9. Timing'
  BY <1>3, <1>4 DEF Timing, Positions
<1>10. Silence'
  BY <1>4 DEF Silence
<1> QED  BY <1>5, <1>6, <1>7, <1>8, <1>9, <1>10

\* The broker dies: what waits in the socket can still be read.
LEMMA DeathStep ==
    ASSUME IInv, BrokerDies
    PROVE  IInv'
<1> USE DEF IInv, Connected
<1>1. /\ peer = "live" /\ peer' = "dead" /\ owed' = "none" /\ owedAge' = 0 /\ deadFor' = 0
      /\ UNCHANGED <<state, sock, phase, inAge, outAge, pingOutstanding, nextMsgId, sinceLoop,
                     rx, heardAge>>
  BY DEF BrokerDies, clientVars
<1>2. TypeOK'
  BY <1>1, ConstantsOK DEF TypeOK
<1>3. Shape' /\ Handshake'
  BY <1>1 DEF Shape, Handshake, Positions
<1>4. Ledger' /\ Timing'
  BY <1>1 DEF Ledger, Timing, Positions
<1>5. Silence'
  <2>1. /\ \A i \in Positions : Slack(i) \in Nat
        /\ Slack(0) \in Nat /\ inAge \in Nat /\ sinceLoop \in Nat
    BY PositionFacts, SlackBounds, ConstantsOK DEF TypeOK
  <2>2. \A i \in Positions : deadFor' <= Slack(i) + sinceLoop
    BY <1>1, <2>1
  <2>3. deadFor' <= Slack(0) + inAge /\ deadFor' <= Slack(0) + KeepAlive + MaxGap + inAge
    BY <1>1, <2>1, ConstantsOK
  <2> QED  BY <1>1, <2>2, <2>3 DEF Silence, Positions
<1> QED  BY <1>2, <1>3, <1>4, <1>5

\* A tick makes everything one older that is measured against something else.
LEMMA TickStep ==
    ASSUME IInv, Tick
    PROVE  IInv'
<1> USE DEF IInv, Connected
<1>1. /\ inAge' = inAge + 1 /\ outAge' = outAge + 1 /\ heardAge' = heardAge + 1
      /\ UNCHANGED <<state, sock, phase, pingOutstanding, nextMsgId, rx, peer, owed>>
      /\ phase = "await" => inAge < SocketTimeout /\ rx = <<>> /\ sinceLoop' = sinceLoop
      /\ phase # "await" => Connected /\ sinceLoop < MaxGap /\ sinceLoop' = sinceLoop + 1
      /\ owed # "none" => owedAge < Latency /\ owedAge' = owedAge + 1
      /\ owed = "none" => owedAge' = 0
      /\ peer = "dead" => deadFor' = deadFor + 1
      /\ peer # "dead" => deadFor' = 0
  BY DEF Tick
<1>2. Connected => phase # "await"
  BY DEF Shape
<1>3. TypeOK'
  <2>1. inAge' \in 0..(KeepAlive + MaxGap) /\ outAge' \in 0..(KeepAlive + MaxGap)
    BY <1>1, ConstantsOK DEF TypeOK, Handshake, Timing
  <2>2. /\ sinceLoop' \in 0..MaxGap /\ owedAge' \in 0..Latency
        /\ heardAge' \in Nat /\ deadFor' \in Nat
    BY <1>1, ConstantsOK DEF TypeOK
  <2> QED  BY <1>1, <2>1, <2>2 DEF TypeOK
<1>4. Shape'
  BY <1>1, ConstantsOK DEF TypeOK, Shape
<1>5. Handshake'
  BY <1>1, ConstantsOK DEF TypeOK, Handshake, Positions
<1>6. Ledger'
  BY <1>1 DEF Ledger, Positions
<1>7. Timing'
  <2> SUFFICES ASSUME Connected'  PROVE Timing'
    BY DEF Timing
  <2>1. Connected /\ sinceLoop' = sinceLoop + 1
    BY <1>1, <1>2
  <2>2. /\ inAge' <= KeepAlive + sinceLoop' /\ outAge' <= KeepAlive + sinceLoop'
        /\ owed = "PINGRESP" => inAge' <= owedAge' /\ outAge' <= owedAge' /\ sinceLoop' <= owedAge'
    BY <1>1, <2>1, ConstantsOK DEF TypeOK, Timing
  <2>3. ASSUME NEW i \in Positions, rx[i] = "PINGRESP"
        PROVE  inAge' <= Latency + Slack(i) + sinceLoop' /\ outAge' <= Latency + Slack(i) + sinceLoop'
    <3>1. inAge <= Latency + Slack(i) + sinceLoop /\ outAge <= Latency + Slack(i) + sinceLoop
      BY <2>1, <2>3 DEF Timing
    <3>2. Slack(i) \in Nat /\ inAge \in Nat /\ outAge \in Nat /\ sinceLoop \in Nat
      BY PositionFacts, ConstantsOK DEF TypeOK
    <3> QED  BY <1>1, <2>1, <3>1, <3>2, ConstantsOK
  <2> QED  BY <1>1, <2>2, <2>3 DEF Timing, Positions
<1>8. Silence'
  <2> SUFFICES ASSUME Connected', peer' = "dead"  PROVE Silence'
    BY DEF Silence
  <2>1. Connected /\ peer = "dead" /\ deadFor' = deadFor + 1 /\ sinceLoop' = sinceLoop + 1
    BY <1>1, <1>2
  <2>2. \A i \in Positions : i = Len(rx) => deadFor' <= Slack(i) + sinceLoop'
    BY <2>1, PositionFacts, ConstantsOK DEF Silence, TypeOK
  <2>3. deadFor \in Nat /\ inAge \in Nat /\ Slack(0) \in Nat
    BY SlackBounds, ConstantsOK DEF TypeOK
  <2>4. rx = <<>> /\ ~pingOutstanding => deadFor' <= Slack(0) + inAge'
    BY <1>1, <2>1, <2>3 DEF Silence
  <2>5. rx = <<>> /\ pingOutstanding => deadFor' <= Slack(0) + KeepAlive + MaxGap + inAge'
    BY <1>1, <2>1, <2>3, ConstantsOK DEF Silence
  <2> QED  BY <1>1, <2>2, <2>4, <2>5 DEF Silence, Positions
<1> QED  BY <1>3, <1>4, <1>5, <1>6, <1>7, <1>8

\* IInv is inductive.
LEMMA StepIInv == IInv /\ [Next]_vars => IInv'
<1> SUFFICES ASSUME IInv, [Next]_vars  PROVE IInv'
  OBVIOUS
<1>1. CASE ConnectFails \/ ConnectSends \/ LoopFindsLoss
  BY <1>1, UnconnectedSteps
<1>2. CASE ConnectTimesOut \/ LoopGivesUp \/ Disconnect \/ SocketDrops
  BY <1>2, ClosingSteps
<1>3. CASE ConnectAnswered
  BY <1>3, AnsweredStep
<1>4. CASE LoopRuns
  BY <1>4, LoopStep
<1>5. CASE CallbackReturns \/ Publish \/ Subscribe
  BY <1>5, CallerSteps
<1>6. CASE BrokerAnswers
  BY <1>6, AnswerStep
<1>7. CASE BrokerSends
  BY <1>7, UnaskedStep
<1>8. CASE BrokerDies
  BY <1>8, DeathStep
<1>9. CASE Tick
  BY <1>9, TickStep
<1>10. CASE UNCHANGED vars
  BY <1>10 DEF vars, clientVars, brokerVars, IInv, TypeOK, Shape, Handshake, Ledger, Timing,
               Silence, Connected, Positions
<1> QED
  BY <1>1, <1>2, <1>3, <1>4, <1>5, <1>6, <1>7, <1>8, <1>9, <1>10 DEF Next

\* Every reachable state satisfies IInv.
THEOREM Invariance == Spec => []IInv
  BY InitIInv, StepIInv, PTL DEF Spec

-----------------------------------------------------------------------------
(* What the keep-alive achieves. *)

\* TypeOK, for all constants: the ages of the timers that loop() compares stay
\* within one keep-alive interval and one gap, the packets that wait within the
\* backlog and one answer, and no packet of a session is numbered zero.
THEOREM TypeCorrect == Spec => []TypeOK
<1>1. IInv => TypeOK
  BY DEF IInv
<1> QED  BY <1>1, Invariance, PTL

\* The ledger of pings (loop(), connect()): at most one answer is anywhere, and
\* pingOutstanding is up exactly for it while the broker lives.
THEOREM PingAccountingHolds == Spec => []PingAccounting
<1>1. IInv => PingAccounting
  BY DEF IInv, Ledger, PingAccounting, AnswersWaiting, Positions, TypeOK
<1> QED  BY <1>1, Invariance, PTL

\* A live broker hears from the client (loop(), publish(), subscribe()) within
\* one and a half keep-alive intervals, whatever the application does.
THEOREM BrokerNeverStarved == Spec => []BrokerNotStarved
<1>1. IInv => BrokerNotStarved
  BY ConstantsOK DEF IInv, TypeOK, Shape, Timing, BrokerNotStarved, Connected
<1> QED  BY <1>1, Invariance, PTL

\* loop() does not take a dead broker for a live one for longer than the bound
\* that follows from the backlog, two intervals and the gaps.
THEOREM DeadBrokerDetected == Spec => []DetectionBound
<1>1. ASSUME IInv, Connected, peer = "dead"
      PROVE  deadFor <= (Backlog + 1) * MaxGap + 2 * (KeepAlive + MaxGap)
  <2> USE DEF IInv
  <2>1. /\ Slack(0) = (Backlog + 1) * MaxGap /\ Slack(0) \in Nat
        /\ inAge \in 0..(KeepAlive + MaxGap) /\ sinceLoop \in 0..MaxGap /\ deadFor \in Nat
    BY <1>1, SlackBounds DEF TypeOK
  <2>2. deadFor <= Slack(0) + 2 * (KeepAlive + MaxGap)
    <3>1. CASE rx = <<>>
      BY <1>1, <2>1, <3>1, ConstantsOK DEF Silence
    <3>2. CASE rx # <<>>
      <4>1. Len(rx) \in Positions /\ Len(rx) \in 1..(Backlog + 1)
        BY <1>1, <3>2, EmptyFacts, ConstantsOK DEF Positions, TypeOK
      <4>2. deadFor <= Slack(Len(rx)) + sinceLoop
        BY <1>1, <4>1 DEF Silence
      <4>3. Slack(Len(rx)) \in Nat /\ Slack(Len(rx)) + MaxGap <= Slack(0)
        BY <4>1, SlackBounds
      <4> QED  BY <2>1, <4>2, <4>3, ConstantsOK
    <3> QED  BY <3>1, <3>2
  <2> QED  BY <2>1, <2>2
<1>2. IInv => DetectionBound
  BY <1>1 DEF DetectionBound
<1> QED  BY <1>2, Invariance, PTL

\* While the answer to a ping is owed or waits in the socket, the next ping is
\* not due: this is what PromptLoopAssumption is for.
LEMMA NotDueWhileAnswered ==
    ASSUME IInv, Connected, peer = "live", pingOutstanding
    PROVE  ~PingDue
<1> USE DEF IInv
<1>1. inAge \in Int /\ outAge \in Int /\ sinceLoop \in 0..MaxGap /\ owedAge \in 0..Latency
  BY DEF TypeOK
<1>2. CASE owed = "PINGRESP"
  BY <1>1, <1>2, ConstantsOK DEF Timing, PingDue
<1>3. CASE owed # "PINGRESP"
  <2>1. PICK i \in Positions : rx[i] = "PINGRESP"
    BY <1>3 DEF Ledger
  <2>2. inAge <= Latency + Slack(i) + sinceLoop /\ outAge <= Latency + Slack(i) + sinceLoop
    BY <2>1 DEF Timing
  <2>3. Slack(i) \in Nat /\ Slack(i) + MaxGap <= Slack(0) /\ Latency + Slack(0) <= KeepAlive
    BY PositionFacts, SlackBounds
  <2> QED  BY <1>1, <2>2, <2>3, SlackBounds, ConstantsOK DEF PingDue
<1> QED  BY <1>2, <1>3

\* loop() gives a session up for silence only when the broker is dead, although
\* it looks at the clock before it looks into the socket.
THEOREM NoFalseAlarmHolds == Spec => NoFalseAlarm
<1>1. ASSUME IInv, [Next]_vars, state = "CONNECTED", state' = "CONNECTION_TIMEOUT"
      PROVE  peer = "dead"
  <2>1. LoopGivesUp
    BY <1>1
       DEF IInv, Shape, Next, vars, clientVars, ConnectFails, ConnectSends, ConnectAnswered,
           ConnectTimesOut, LoopFindsLoss, LoopRuns, CallbackReturns, Publish, Subscribe,
           Disconnect, BrokerAnswers, BrokerSends, BrokerDies, SocketDrops, Tick, NoticeLoss
  <2>2. Connected /\ PingDue /\ pingOutstanding
    BY <2>1 DEF LoopGivesUp, MustGiveUp
  <2>3. peer \in {"live", "dead"}
    BY <1>1, <2>2 DEF IInv, TypeOK, Shape, Connected
  <2> QED  BY <1>1, <2>2, <2>3, NotDueWhileAnswered
<1>2. IInv /\ [Next]_vars => [(state = "CONNECTED" /\ state' = "CONNECTION_TIMEOUT") => peer = "dead"]_vars
  BY <1>1
<1> QED  BY <1>2, Invariance, PTL DEF Spec, NoFalseAlarm

-----------------------------------------------------------------------------
(* The client implements PeerMonitor. *)

\* A step of the client is a step of the monitor or changes nothing in it.
LEMMA MonitorStep ==
    ASSUME IInv, [Next]_vars
    PROVE  [Monitor!Next]_(Monitor!vars)
<1> USE DEF IInv, Connected
<1>1. CASE ConnectFails
  <2>1. Monitor!Fail
    BY <1>1 DEF ConnectFails, brokerVars, Shape, Monitor!Fail
  <2> QED  BY <2>1 DEF Monitor!Next
<1>2. CASE ConnectSends
  <2>1. Monitor!Dial
    BY <1>2 DEF ConnectSends, NoticeLoss, Monitor!Dial
  <2> QED  BY <2>1 DEF Monitor!Next
<1>3. CASE ConnectAnswered
  <2>1. phase = "await" /\ state # "CONNECTED" /\ sock = "open" /\ peer # "none"
    BY <1>3 DEF ConnectAnswered, Shape, TypeOK
  <2>2. CASE Head(rx) = "CONNACK"
    <3>1. Monitor!Open
      BY <1>3, <2>1, <2>2 DEF ConnectAnswered, PingAfterConnect, brokerVars, Monitor!Open
    <3> QED  BY <3>1 DEF Monitor!Next
  <2>3. CASE Head(rx) # "CONNACK"
    <3>1. Monitor!Fail
      BY <1>3, <2>1, <2>3 DEF ConnectAnswered, CloseSocket, Monitor!Fail
    <3> QED  BY <3>1 DEF Monitor!Next
  <2> QED  BY <2>2, <2>3
<1>4. CASE ConnectTimesOut
  <2>1. phase = "await" /\ rx = <<>> /\ inAge >= SocketTimeout /\ state # "CONNECTED"
    BY <1>4 DEF ConnectTimesOut, Shape
  <2>2. peer # "live"
    BY <2>1, ConstantsOK DEF Handshake, TypeOK
  <2>3. Monitor!Fail
    BY <1>4, <2>1, <2>2 DEF ConnectTimesOut, CloseSocket, Monitor!Fail
  <2> QED  BY <2>3 DEF Monitor!Next
<1>5. CASE LoopGivesUp
  <2>1. Connected /\ PingDue /\ pingOutstanding /\ peer \in {"live", "dead"}
    BY <1>5 DEF LoopGivesUp, MustGiveUp, Shape, TypeOK
  <2>2. peer = "dead"
    BY <2>1, NotDueWhileAnswered
  <2>3. Monitor!Suspect
    BY <1>5, <2>1, <2>2 DEF LoopGivesUp, CloseSocket, Monitor!Suspect
  <2> QED  BY <2>3 DEF Monitor!Next
<1>6. CASE LoopRuns
  <2>1. Connected /\ UNCHANGED <<state, sock, peer>>
    BY <1>6 DEF LoopRuns
  <2>2. Monitor!Probe \/ Monitor!Answer \/ UNCHANGED Monitor!vars
    BY <2>1 DEF Monitor!Probe, Monitor!Answer, Monitor!vars
  <2> QED  BY <2>2 DEF Monitor!Next
<1>7. CASE Disconnect
  <2>1. state' = "DISCONNECTED" /\ peer' = "none" /\ phase = "idle"
    BY <1>7 DEF Disconnect, CloseSocket
  <2>2. CASE sock = "open"
    <3>1. Monitor!Break
      BY <2>1, <2>2 DEF Shape, Monitor!Break
    <3> QED  BY <3>1 DEF Monitor!Next
  <2>3. CASE sock # "open"
    <3>1. Monitor!Fail
      BY <2>1, <2>3 DEF Monitor!Fail
    <3> QED  BY <3>1 DEF Monitor!Next
  <2> QED  BY <2>2, <2>3
<1>8. CASE BrokerDies
  <2>1. Monitor!Die
    BY <1>8 DEF BrokerDies, clientVars, Monitor!Die
  <2> QED  BY <2>1 DEF Monitor!Next
<1>9. CASE SocketDrops
  <2>1. Monitor!Break
    BY <1>9 DEF SocketDrops, CloseSocket, Shape, Monitor!Break
  <2> QED  BY <2>1 DEF Monitor!Next
<1>10. CASE LoopFindsLoss \/ CallbackReturns \/ Publish \/ Subscribe
  <2>1. /\ sock' = sock /\ peer' = peer /\ pingOutstanding' = pingOutstanding
        /\ sock = "open" => state' = state
        /\ state' = state \/ (state = "CONNECTED" /\ state' = "CONNECTION_LOST")
    BY <1>10 DEF LoopFindsLoss, CallbackReturns, Publish, Subscribe, NoticeLoss, brokerVars, TypeOK
  <2>2. UNCHANGED Monitor!vars
    BY <2>1 DEF Monitor!vars
  <2> QED  BY <2>2
<1>11. CASE BrokerAnswers \/ BrokerSends \/ Tick \/ UNCHANGED vars
  <2>1. UNCHANGED <<state, sock, peer, pingOutstanding>>
    BY <1>11 DEF BrokerAnswers, BrokerSends, Tick, vars, clientVars, brokerVars
  <2>2. UNCHANGED Monitor!vars
    BY <2>1 DEF Monitor!vars
  <2> QED  BY <2>2
<1> QED
  BY <1>1, <1>2, <1>3, <1>4, <1>5, <1>6, <1>7, <1>8, <1>9, <1>10, <1>11 DEF Next

\* connect() and loop() implement the monitor: they trust the broker, probe it,
\* and suspect it only after a probe and only when it is gone.
THEOREM ImplementsMonitor == Spec => MonitorSpec
<1>1. Init => Monitor!Init
  BY DEF Init, Monitor!Init, Connected
<1>2. IInv /\ [Next]_vars => [Monitor!Next]_(Monitor!vars)
  BY MonitorStep
<1> QED  BY <1>1, <1>2, Invariance, PTL DEF Spec, MonitorSpec, Monitor!Spec
=============================================================================
