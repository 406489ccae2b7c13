----------------------- MODULE GatewaySession_proofs -----------------------
(***************************************************************************)
(* Proofs about GatewaySession, for any sub-device lists, userids and      *)
(* windows: what a registered gateway works with is the grant of this very *)
(* session.                                                                *)
(***************************************************************************)
EXTENDS GatewaySession, CString_proofs, SequenceTheorems, TLAPS

-----------------------------------------------------------------------------
(* Numbers and sequences. *)

\* The first of some slots is one of them, and none is before it.
LEMMA FirstFacts ==
    ASSUME NEW S, S \subseteq Nat, S # {}
    PROVE  First(S) \in S /\ \A j \in S : First(S) <= j
<1>1. \E i \in S : \A j \in S : i <= j
  BY LeastNat
<1> QED  BY <1>1, Zenon DEF First

\* The message at the head of the inbox, and what remains.
LEMMA InboxFacts ==
    ASSUME TypeOK, inbox # <<>>
    PROVE  /\ Head(inbox) = inbox[1] /\ Head(inbox) \in Messages
           /\ Tail(inbox) \in Seq(Messages) /\ Len(Tail(inbox)) = Len(inbox) - 1
           /\ Len(inbox) \in Nat \ {0} /\ Len(Tail(inbox)) <= InboxSize
<1>1. inbox \in Seq(Messages) /\ Len(inbox) <= InboxSize
  BY DEF TypeOK
<1> QED  BY <1>1, HeadTailProperties, EmptySeq, WindowAssumption

\* What a reply holds that names sub-devices.
LEMMA ReplyFacts ==
    ASSUME NEW msg \in Messages, msg.type = "ackuserid"
    PROVE  /\ msg.rows \in Tables /\ msg.rows \in Seq(Rows)
           /\ msg.rows # <<>> /\ Len(msg.rows) <= SUBDEV_MAX_SIZE
           /\ msg.cmd = "ok" => msg.user \in Users
  BY TablesAssumption DEF Messages, Replies, Commands

\* What a command for a device holds.
LEMMA CommandFacts ==
    ASSUME NEW msg \in Messages, msg.type \in {"read", "write"}
    PROVE  msg.dev \in Devs \cup {GW}
  BY DEF Messages, Replies, Commands

-----------------------------------------------------------------------------
(* The table. *)

\* An entry of the table is a row.
LEMMA EntryFacts ==
    ASSUME TypeOK
    PROVE  /\ Entries \subseteq Nat
           /\ \A i \in Entries : i \in Slots /\ subDevs[i] \in Rows
  BY SizeAssumption DEF TypeOK, Entries, Slots

\* The slot found for an address is an entry.
LEMMA SlotAtFacts ==
    ASSUME TypeOK, NEW addr, SlotAt(addr) # 0
    PROVE  SlotAt(addr) \in Entries
<1> DEFINE found == {i \in Entries : subDevs[i].addr = addr}
<1>1. found # {} /\ SlotAt(addr) = First(found)
  BY DEF SlotAt
<1>2. found \subseteq Nat /\ found \subseteq Entries
  BY EntryFacts
<1> HIDE DEF found
<1> QED  BY <1>1, <1>2, FirstFacts

\* The first of the entries found for a devindex is an entry with it.
LEMMA FoundFacts ==
    ASSUME TypeOK, NEW dev, Found(dev) # {}
    PROVE  First(Found(dev)) \in Entries /\ subDevs[First(Found(dev))].dev = dev
<1>1. Found(dev) \subseteq Nat
  BY EntryFacts DEF Found
<1>2. First(Found(dev)) \in Found(dev)
  BY <1>1, FirstFacts
<1> QED  BY <1>2 DEF Found

\* The text of an address: digits, that end within their cells.
LEMMA AddrFacts ==
    ASSUME NEW row \in Rows
    PROVE  /\ row.addr \in Texts(Digits, AddrCells) /\ row.addr # <<>>
           /\ Len(row.addr) \in 1..(AddrCells - 1)
           /\ row.addr = [i \in 1..Len(row.addr) |-> row.addr[i]]
           /\ \A i \in 1..Len(row.addr) : row.addr[i] \in Digits /\ row.addr[i] # Nul
<1>1. AddrCells \in Nat \ {0} /\ Nul \notin Digits
  BY AddrAssumption
<1>2. PICK k \in 0..(AddrCells - 1) : row.addr \in [1..k -> Digits]
  BY RowsAssumption DEF Texts
<1>3. Len(row.addr) = k /\ k \in 0..AddrCells
  BY <1>1, <1>2
<1>4. row.addr # <<>> /\ k # 0
  <2>1. row.addr # <<>>
    BY RowsAssumption
  <2>2. k = 0 => row.addr = <<>>
    BY <1>2
  <2> QED  BY <2>1, <2>2
<1>5. row.addr \in Texts(Digits, AddrCells)
  BY <1>2, <1>3 DEF Texts
<1>6. k \in 1..(AddrCells - 1)
  BY <1>1, <1>2, <1>4
<1>7. row.addr = [i \in 1..k |-> row.addr[i]] /\ \A i \in 1..k : row.addr[i] \in Digits
  BY <1>2
<1> QED  BY <1>1, <1>3, <1>4, <1>5, <1>6, <1>7

\* A place on the stack, and what an address makes of it.
LEMMA LeftoverFacts ==
    ASSUME NEW rest \in Leftovers
    PROVE  /\ Len(rest) = AddrCells /\ rest \in [1..AddrCells -> Digits \cup {Nul}]
           /\ \A row \in Rows :
                StrNCpy(rest, row.addr) \in [1..AddrCells -> Digits \cup {Nul}]
<1>1. AddrCells \in Nat /\ rest \in [1..AddrCells -> Digits \cup {Nul}]
  BY AddrAssumption
<1>2. Len(rest) = AddrCells
  BY <1>1
<1>3. ASSUME NEW row \in Rows
      PROVE  StrNCpy(rest, row.addr) \in [1..AddrCells -> Digits \cup {Nul}]
  <2> DEFINE cell(i) == IF i <= Len(row.addr) THEN row.addr[i] ELSE rest[i]
  <2>1. ASSUME NEW i \in 1..AddrCells PROVE cell(i) \in Digits \cup {Nul}
    <3>1. Len(row.addr) \in Nat /\ \A j \in 1..Len(row.addr) : row.addr[j] \in Digits
      <4>1. /\ Len(row.addr) \in 1..(AddrCells - 1)
            /\ \A j \in 1..Len(row.addr) : row.addr[j] \in Digits
        BY AddrFacts, Zenon
      <4> QED  BY <4>1, AddrAssumption
    <3>2. CASE i <= Len(row.addr)
      <4>1. i \in 1..Len(row.addr)
        BY <1>1, <3>1, <3>2
      <4> QED  BY <3>1, <3>2, <4>1
    <3>3. CASE ~(i <= Len(row.addr))
      <4>1. rest[i] \in Digits \cup {Nul}
        BY <1>1
      <4> QED  BY <3>3, <4>1
    <3> QED  BY <3>2, <3>3
  <2>2. StrNCpy(rest, row.addr) = [i \in 1..AddrCells |-> cell(i)]
    BY <1>2 DEF StrNCpy
  <2> HIDE DEF cell
  <2> QED  BY <2>1, <2>2
<1> QED  BY <1>1, <1>2, <1>3

\* What the decode functions return, and atol() reads, is an address.
LEMMA DecodedFacts ==
    ASSUME TypeOK, NEW dev
    PROVE  DecodedAddrs(dev) \subseteq Addrs
<1>1. AddrCells \in Nat
  BY AddrAssumption
<1>2. \A text \in Texts(Digits, AddrCells) : Atol(text) \in Addrs
  BY DEF Atol, Addrs
<1>3. \A rest \in Leftovers : Str(rest) \in Texts(Digits, AddrCells)
  BY <1>1, LeftoverFacts, StrInTexts
<1>4. \A rest \in Leftovers, row \in Rows : Str(StrNCpy(rest, row.addr)) \in Texts(Digits, AddrCells)
  BY <1>1, LeftoverFacts, StrInTexts
<1>5. Found(dev) # {} => subDevs[First(Found(dev))] \in Rows
  BY FoundFacts, EntryFacts
<1> QED  BY <1>2, <1>3, <1>4, <1>5 DEF DecodedAddrs

\* The copy of a list fills the table with rows.
LEMMA CopiedFacts ==
    ASSUME TypeOK, NEW rows \in Seq(Rows), Len(rows) <= SUBDEV_MAX_SIZE
    PROVE  /\ Copied(rows) \in [Slots -> Rows \cup {Blank}]
           /\ \A i \in DOMAIN rows : i \in Slots /\ Copied(rows)[i] = rows[i] /\ rows[i] \in Rows
           /\ DOMAIN rows = 1..Len(rows) /\ Len(rows) \in Nat
  BY SizeAssumption DEF TypeOK, Copied, Slots

\* The topics subscribed for a grant.
LEMMA TopicFacts ==
    ASSUME NEW rows \in Seq(Rows), NEW user \in Users
    PROVE  /\ ReadWrite(GW, user) \subseteq Topics
           /\ SubDevTopics(rows, user) \subseteq Topics
           /\ \A t \in ReadWrite(GW, user) : t[1] = GW
           /\ \A t \in SubDevTopics(rows, user) : \E i \in DOMAIN rows : t[1] = rows[i].dev
<1>1. \A i \in DOMAIN rows : rows[i] \in Rows /\ rows[i].dev \in Devs
  BY DEF Devs
<1>2. \A t \in SubDevTopics(rows, user) :
         \E i \in DOMAIN rows : t \in ReadWrite(rows[i].dev, rows[i].user)
  BY DEF SubDevTopics
<1>3. \A i \in DOMAIN rows : ReadWrite(rows[i].dev, rows[i].user) \subseteq Topics
  BY <1>1 DEF ReadWrite, Topics
<1>4. \A dev, u : \A t \in ReadWrite(dev, u) : t[1] = dev
  BY DEF ReadWrite
<1>5. ReadWrite(GW, user) \subseteq Topics
  BY DEF ReadWrite, Topics
<1> QED  BY <1>2, <1>3, <1>4, <1>5

-----------------------------------------------------------------------------
(* Types. *)

\* Power-up has the types.
LEMMA InitTypes == Init => TypeOK
<1> SUFFICES ASSUME Init PROVE TypeOK
  OBVIOUS
<1>1. inbox \in Seq(Messages) /\ Len(inbox) <= InboxSize
  BY WindowAssumption, EmptySeq DEF Init
<1>2. polls \in 0..WifiPolls /\ remoteAge \in 0..(RemoteWindow + 1) /\ downFor \in 0..(RemoteWindow + 1)
  BY WindowAssumption DEF Init
<1>3. subOk \in BOOLEAN /\ remoteFirst \in BOOLEAN /\ wifi \in BOOLEAN /\ configured \in BOOLEAN
      /\ asked \in BOOLEAN /\ calm \in BOOLEAN
  BY DEF Init
<1>4. subDevs \in [Slots -> Rows \cup {Blank}]
  BY DEF Init
<1> QED  BY <1>1, <1>2, <1>3, <1>4 DEF Init, TypeOK

\* A reset leaves the types as they are.
LEMMA ResetTypes ==
    ASSUME TypeOK, Reset, configured' \in BOOLEAN,
           subDevs' \in [Slots -> Rows \cup {Blank}], numSubDevs' \in Nat,
           UNCHANGED <<polls, subOk, userid, remoteFirst, remoteAge, outVars, downFor, calm>>
    PROVE  TypeOK'
<1>1. inbox' \in Seq(Messages) /\ Len(inbox') <= InboxSize
  BY WindowAssumption, EmptySeq DEF Reset, SessionEnds
<1>2. session' = "down" /\ subs' = {} /\ granted' = <<>> /\ pc' = "boot"
  BY DEF Reset, SessionEnds
<1>3. asked' \in BOOLEAN /\ wifi' \in BOOLEAN
  BY DEF Reset, SessionEnds
<1> QED  BY <1>1, <1>2, <1>3 DEF TypeOK, outVars

\* A message that is taken, the rest of the program's state as it was.
LEMMA TakenTypes ==
    ASSUME TypeOK, inbox # <<>>, inbox' = Tail(inbox), pc' = "app",
           subDevs' \in [Slots -> Rows \cup {Blank}], numSubDevs' \in Nat,
           UNCHANGED <<polls, subOk, userid, remoteFirst, remoteAge,
                       session, subs, asked, granted, envVars>>,
           sent' \in Rows \cup {Blank, NoMsg},
           called' \in {NoMsg} \cup [dev : Devs \cup {GW}, addr : Addrs]
    PROVE  TypeOK'
<1>1. Tail(inbox) \in Seq(Messages) /\ Len(Tail(inbox)) <= InboxSize
  BY InboxFacts
<1> QED  BY <1>1 DEF TypeOK, envVars

\* A message is appended.
LEMMA SentTypes ==
    ASSUME TypeOK, NEW msg \in Messages, Len(inbox) < InboxSize, inbox' = Append(inbox, msg),
           asked' \in BOOLEAN,
           UNCHANGED <<programVars, session, subs, granted, outVars, envVars>>
    PROVE  TypeOK'
<1>1. Append(inbox, msg) \in Seq(Messages) /\ Len(Append(inbox, msg)) = Len(inbox) + 1
  BY DEF TypeOK
<1>2. inbox' \in Seq(Messages) /\ Len(inbox') <= InboxSize
  BY <1>1, WindowAssumption DEF TypeOK
<1> QED  BY <1>2 DEF TypeOK, programVars, outVars, envVars

\* The clocks stop at the end of the window.
LEMMA OlderFacts == \A age \in 0..(RemoteWindow + 1) : Older(age) \in 0..(RemoteWindow + 1)
  BY WindowAssumption DEF Older

\* The list of an answer fills the table, whatever the answer is.
LEMMA CopyTypes ==
    ASSUME TypeOK, NEW cmd, ReceiveAckuserid(cmd)
    PROVE  /\ inbox # <<>> /\ Head(inbox) \in Messages /\ Head(inbox).type = "ackuserid"
           /\ Head(inbox) = inbox[1] /\ 1 \in DOMAIN inbox /\ Head(inbox).cmd = cmd
           /\ subDevs' \in [Slots -> Rows \cup {Blank}] /\ numSubDevs' \in Nat
<1>1. /\ inbox # <<>> /\ Head(inbox).type = "ackuserid" /\ Head(inbox).cmd = cmd
      /\ subDevs' = Copied(Head(inbox).rows) /\ numSubDevs' = Len(Head(inbox).rows)
  BY DEF ReceiveAckuserid, Receive
<1>2. Head(inbox) \in Messages /\ Head(inbox) = inbox[1] /\ 1 \in DOMAIN inbox
  BY <1>1, InboxFacts DEF TypeOK
<1> QED  BY <1>1, <1>2, ReplyFacts, CopiedFacts

\* What a command tells the application has its type.
LEMMA CommandTypes ==
    ASSUME TypeOK, CommandToDevice
    PROVE  /\ sent' \in Rows \cup {Blank, NoMsg}
           /\ called' \in {NoMsg} \cup [dev : Devs \cup {GW}, addr : Addrs]
<1> DEFINE cmd == Head(inbox)
<1>1. inbox # <<>> /\ cmd.type \in {"read", "write"}
  BY DEF CommandToDevice, Receive
<1>2. cmd \in Messages /\ cmd.dev \in Devs \cup {GW}
  BY <1>1, InboxFacts, CommandFacts
<1>3. CASE subOk
  <2>1. PICK addr \in DecodedAddrs(cmd.dev) : called' = [dev |-> cmd.dev, addr |-> addr]
    BY <1>3 DEF CommandToDevice
  <2>2. addr \in Addrs
    BY DecodedFacts
  <2>3. called' \in [dev : Devs \cup {GW}, addr : Addrs]
    BY <1>2, <2>1, <2>2
  <2>4. AnsweringSlots(cmd.dev) \subseteq Slots
    BY FoundFacts, EntryFacts DEF AnsweringSlots
  <2>5. \A i \in Slots : subDevs[i] \in Rows \cup {Blank}
    BY DEF TypeOK
  <2>6. sent' = sent \/ \E i \in AnsweringSlots(cmd.dev) : sent' = subDevs[i]
    BY <1>3 DEF CommandToDevice
  <2> QED  BY <2>3, <2>4, <2>5, <2>6 DEF TypeOK
<1>4. CASE ~subOk
  BY <1>4 DEF CommandToDevice, outVars, TypeOK
<1> QED  BY <1>3, <1>4

\* gwWifiConfig() has polls left while it polls.
Polling == pc = "wifi" => polls < WifiPolls

\* Every step keeps the polls within their number.
LEMMA PollingStep == TypeOK /\ Polling /\ [Next]_vars => Polling'
<1> SUFFICES ASSUME TypeOK, Polling, [Next]_vars, pc' = "wifi" PROVE polls' < WifiPolls
  BY DEF Polling
<1> USE DEF Polling
<1>0. WifiPolls \in Nat \ {0} /\ polls \in 0..WifiPolls
  BY WindowAssumption DEF TypeOK
<1>1. CASE RunStart
  BY <1>0, <1>1 DEF RunStart
<1>2. CASE WifiPoll
  BY <1>0, <1>2 DEF WifiPoll, LastPoll
<1>3. CASE Tick \/ CalmComes \/ CloudAnswers \/ CloudForgets \/ CloudCommands
  BY <1>3 DEF Tick, CalmComes, CloudAnswers, CloudForgets, CloudCommands, programVars
<1>4. CASE WifiJoins \/ WifiLost \/ SessionDrops \/ AppPublishes \/ UNCHANGED vars
  BY <1>4 DEF WifiJoins, WifiLost, SessionDrops, AppPublishes, vars, programVars
<1>5. CASE Boot \/ RunGoesOn \/ RunConnects \/ RunFailsToConnect \/ PollNothing \/ AppReturns
  BY <1>5 DEF Boot, RunGoesOn, RunConnects, RunFailsToConnect, PollNothing, AppReturns
<1>6. CASE AckuseridOk \/ AckuseridMalformed \/ AckuseridOther \/ AckuseridRedirect \/ CommandToDevice
  BY <1>6 DEF AckuseridOk, AckuseridMalformed, AckuseridOther, ReceiveAckuserid, AckuseridRedirect, CommandToDevice, Reset
<1>7. CASE WifiClear \/ Update \/ ApExpires \/ ApUserSaves
  BY <1>7 DEF WifiClear, Update, ApExpires, ApUserSaves, Reset
<1> QED  BY <1>1, <1>2, <1>3, <1>4, <1>5, <1>6, <1>7 DEF Next

\* Every step keeps the types.
LEMMA TypeStep == TypeOK /\ Polling /\ [Next]_vars => TypeOK'
<1> SUFFICES ASSUME TypeOK, Polling, [Next]_vars PROVE TypeOK'
  OBVIOUS
<1>1. CASE Boot
  <2>1. subDevs' \in [Slots -> Rows \cup {Blank}] /\ numSubDevs' \in Nat /\ userid' \in Users \cup {Blank}
    BY <1>1 DEF Boot
  <2>2. subOk' \in BOOLEAN /\ remoteFirst' \in BOOLEAN
    BY <1>1 DEF Boot
  <2>3. polls' \in 0..WifiPolls /\ remoteAge' \in 0..(RemoteWindow + 1) /\ downFor' \in 0..(RemoteWindow + 1)
    BY <1>1, WindowAssumption DEF Boot
  <2> QED  BY <1>1, <2>1, <2>2, <2>3 DEF Boot, TypeOK, cloudVars, outVars
<1>2. CASE RunStart
  <2>1. polls' \in 0..WifiPolls /\ pc' \in {"check", "wifi"}
    BY <1>2, WindowAssumption DEF RunStart, TypeOK
  <2> QED  BY <1>2, <2>1 DEF RunStart, TypeOK, cloudVars, outVars, envVars
<1>3. CASE WifiPoll
  <2>1. WifiPolls \in Nat /\ polls \in 0..WifiPolls /\ polls < WifiPolls
    BY <1>3, WindowAssumption DEF WifiPoll, TypeOK, Polling
  <2>2. polls' \in 0..WifiPolls /\ pc' \in {"check", "ap", "wifi"}
    BY <1>3, <2>1 DEF WifiPoll
  <2> QED  BY <1>3, <2>2 DEF WifiPoll, TypeOK, cloudVars, outVars, envVars
<1>4. CASE RunGoesOn \/ PollNothing \/ AppReturns
  <2>1. pc' \in {"app", "poll", "run"} /\ called' \in {called, NoMsg}
    BY <1>4 DEF RunGoesOn, PollNothing, AppReturns, outVars
  <2>2. UNCHANGED <<polls, subOk, userid, subDevs, numSubDevs, remoteFirst, remoteAge,
                    cloudVars, sent, envVars>>
    BY <1>4 DEF RunGoesOn, PollNothing, AppReturns, outVars
  <2> QED  BY <2>1, <2>2 DEF TypeOK, cloudVars, envVars
<1>5. CASE RunConnects
  <2>1. subDevs' \in [Slots -> Rows \cup {Blank}] /\ UNCHANGED <<userid, numSubDevs>>
    BY <1>5 DEF RunConnects, ForgetSession
  <2>2. subOk' \in BOOLEAN /\ remoteFirst' \in BOOLEAN /\ asked' \in BOOLEAN
    BY <1>5 DEF RunConnects, ForgetSession, SubOkOnReconnect, RemoteFirstOnSuccess
  <2>3. remoteAge' \in 0..(RemoteWindow + 1) /\ downFor' \in 0..(RemoteWindow + 1)
    BY <1>5, WindowAssumption DEF RunConnects, RemoteFirstOnSuccess
  <2>4. session' = "up" /\ subs' = {Ackuserid} /\ pc' = "poll"
    BY <1>5 DEF RunConnects, SubsAfterConnect
  <2> QED  BY <1>5, <2>1, <2>2, <2>3, <2>4 DEF RunConnects, TypeOK, outVars
<1>6. CASE RunFailsToConnect
  <2>1. subDevs' \in [Slots -> Rows \cup {Blank}] /\ UNCHANGED <<userid, numSubDevs>>
    BY <1>6 DEF RunFailsToConnect, ForgetSession
  <2>2. subOk' \in BOOLEAN /\ remoteFirst' \in BOOLEAN /\ wifi' \in BOOLEAN
    BY <1>6 DEF RunFailsToConnect, ForgetSession, SubOkOnReconnect
  <2>3. remoteAge' \in 0..(RemoteWindow + 1)
    BY <1>6, WindowAssumption DEF RunFailsToConnect, TypeOK
  <2>4. pc' \in {"ap", "poll"}
    BY <1>6 DEF RunFailsToConnect
  <2> QED  BY <1>6, <2>1, <2>2, <2>3, <2>4 DEF RunFailsToConnect, TypeOK, cloudVars, outVars
<1>7. CASE AckuseridOk
  <2> DEFINE rows == Head(inbox).rows
             user == Head(inbox).user
  <2>0. ReceiveAckuserid("ok")
    BY <1>7 DEF AckuseridOk
  <2>1. user \in Users /\ rows \in Tables /\ rows \in Seq(Rows) /\ Len(rows) <= SUBDEV_MAX_SIZE
    BY <2>0, CopyTypes, ReplyFacts
  <2>2. subDevs' \in [Slots -> Rows \cup {Blank}] /\ numSubDevs' \in Nat
    BY <2>0, CopyTypes
  <2>3. subs' \subseteq Topics \cup {Ackuserid}
    BY <1>7, <2>1, TopicFacts DEF AckuseridOk, TypeOK
  <2>4. inbox' \in Seq(Messages) /\ Len(inbox') <= InboxSize
    BY <1>7, <2>0, CopyTypes, InboxFacts DEF AckuseridOk
  <2>5. userid' \in Users /\ granted' \in Tables /\ pc' = "app"
    BY <1>7, <2>1 DEF AckuseridOk
  <2>6. subOk' \in BOOLEAN
    BY <1>7 DEF AckuseridOk
  <2> QED  BY <1>7, <2>2, <2>3, <2>4, <2>5, <2>6 DEF AckuseridOk, TypeOK, outVars, envVars
<1>8. CASE AckuseridMalformed \/ AckuseridOther
  <2>1. subDevs' \in [Slots -> Rows \cup {Blank}] /\ numSubDevs' \in Nat /\ inbox # <<>>
    BY <1>8, CopyTypes DEF AckuseridMalformed, AckuseridOther, Receive, TypeOK
  <2>2. inbox' = Tail(inbox) /\ pc' = "app"
    BY <1>8 DEF AckuseridMalformed, AckuseridOther
  <2>3. UNCHANGED <<polls, subOk, userid, remoteFirst, remoteAge, session, subs, asked, granted, outVars, envVars>>
    BY <1>8 DEF AckuseridMalformed, AckuseridOther
  <2>4. sent' \in Rows \cup {Blank, NoMsg} /\ called' \in {NoMsg} \cup [dev : Devs \cup {GW}, addr : Addrs]
    BY <2>3 DEF outVars, TypeOK
  <2> QED  BY <2>1, <2>2, <2>3, <2>4, TakenTypes
<1>9. CASE AckuseridRedirect \/ ApExpires \/ ApUserSaves
  <2>1. configured' \in BOOLEAN
    BY <1>9 DEF AckuseridRedirect, ApExpires, ApUserSaves, TypeOK
  <2>2. subDevs' \in [Slots -> Rows \cup {Blank}] /\ numSubDevs' \in Nat
    BY <1>9, CopyTypes DEF AckuseridRedirect, ApExpires, ApUserSaves, TypeOK
  <2> QED  BY <1>9, <2>1, <2>2, ResetTypes DEF AckuseridRedirect, ApExpires, ApUserSaves
<1>10. CASE CommandToDevice
  <2>1. subDevs' \in [Slots -> Rows \cup {Blank}] /\ numSubDevs' \in Nat
    BY <1>10 DEF CommandToDevice, TypeOK
  <2> QED  BY <1>10, <2>1, CommandTypes, TakenTypes DEF CommandToDevice, Receive
<1>11. CASE WifiClear
  <2>0. subDevs' \in [Slots -> Rows \cup {Blank}] /\ numSubDevs' \in Nat
    BY <1>11 DEF WifiClear, TypeOK
  <2>1. CASE subOk
    <3>1. configured' \in BOOLEAN
      BY <1>11, <2>1 DEF WifiClear, TypeOK
    <3> QED  BY <1>11, <2>0, <2>1, <3>1, ResetTypes DEF WifiClear
  <2>2. CASE ~subOk
    BY <1>11, <2>2, TakenTypes DEF WifiClear, Receive, outVars, envVars, TypeOK
  <2> QED  BY <2>1, <2>2
<1>12. CASE Update
  <2>1. configured' \in BOOLEAN /\ subDevs' \in [Slots -> Rows \cup {Blank}] /\ numSubDevs' \in Nat
    BY <1>12 DEF Update, TypeOK
  <2>2. CASE Reset
    BY <1>12, <2>1, <2>2, ResetTypes DEF Update
  <2>3. CASE ~Reset
    BY <1>12, <2>3, TakenTypes DEF Update, Receive, outVars, envVars, TypeOK
  <2> QED  BY <2>2, <2>3
<1>13. CASE AppPublishes
  <2>1. sent' \in Rows
    BY <1>13, SlotAtFacts, EntryFacts DEF AppPublishes
  <2> QED  BY <1>13, <2>1 DEF AppPublishes, TypeOK, programVars, cloudVars, envVars
<1>14. CASE WifiJoins \/ WifiLost
  <2>1. wifi' \in BOOLEAN
    BY <1>14 DEF WifiJoins, WifiLost
  <2> QED  BY <1>14, <2>1 DEF WifiJoins, WifiLost, TypeOK, programVars, cloudVars, outVars
<1>15. CASE SessionDrops
  <2>1. inbox' \in Seq(Messages) /\ Len(inbox') <= InboxSize
    BY <1>15, WindowAssumption, EmptySeq DEF SessionDrops, SessionEnds
  <2>2. asked' \in BOOLEAN
    BY <1>15 DEF SessionDrops, SessionEnds
  <2> QED  BY <1>15, <2>1, <2>2 DEF SessionDrops, SessionEnds, TypeOK, programVars, outVars, envVars
<1>16. CASE CloudAnswers
  <2>1. PICK reply \in Replies : inbox' = Append(inbox, reply)
    BY <1>16 DEF CloudAnswers
  <2>2. asked' \in BOOLEAN /\ reply \in Messages
    BY <1>16 DEF CloudAnswers, Messages
  <2> QED  BY <1>16, <2>1, <2>2, SentTypes DEF CloudAnswers
<1>17. CASE CloudForgets
  <2>1. asked' \in BOOLEAN
    BY <1>17 DEF CloudForgets
  <2> QED  BY <1>17, <2>1 DEF CloudForgets, TypeOK, programVars, outVars, envVars
<1>18. CASE CloudCommands
  <2>1. PICK cmd \in Commands : inbox' = Append(inbox, cmd)
    BY <1>18 DEF CloudCommands
  <2>2. asked' \in BOOLEAN /\ cmd \in Messages
    BY <1>18 DEF CloudCommands, Messages, TypeOK
  <2> QED  BY <1>18, <2>1, <2>2, SentTypes DEF CloudCommands
<1>19. CASE Tick
  <2>1. remoteAge' \in 0..(RemoteWindow + 1) /\ downFor' \in 0..(RemoteWindow + 1)
    BY <1>19, OlderFacts, WindowAssumption DEF Tick, TypeOK
  <2> QED  BY <1>19, <2>1 DEF Tick, TypeOK, cloudVars, outVars
<1>20. CASE CalmComes
  <2>1. calm' \in BOOLEAN
    BY <1>20 DEF CalmComes
  <2> QED  BY <1>20, <2>1 DEF CalmComes, TypeOK, programVars, cloudVars, outVars
<1>21. CASE UNCHANGED vars
  BY <1>21 DEF TypeOK, vars, programVars, cloudVars, outVars, envVars
<1> QED
  BY <1>1, <1>2, <1>3, <1>4, <1>5, <1>6, <1>7, <1>8, <1>9, <1>10, <1>11, <1>12, <1>13,
     <1>14, <1>15, <1>16, <1>17, <1>18, <1>19, <1>20, <1>21 DEF Next

\* Types and ranges hold in every reachable state.
THEOREM SessionTypeCorrect == Spec => []TypeOK
<1>1. Init => TypeOK /\ Polling
  BY InitTypes DEF Init, Polling
<1>2. TypeOK /\ Polling /\ [Next]_vars => (TypeOK /\ Polling)'
  BY TypeStep, PollingStep
<1> QED  BY <1>1, <1>2, PTL DEF Spec

-----------------------------------------------------------------------------
(* The session.  Without one nothing of the cloud is left; in one, the       *)
(* broker holds ackuserid alone until the grant, the one reply is alone on   *)
(* its way, and commands come for devices of the grant only.                 *)

IsReply(msg) == msg.type \in {"ackuserid", "malformed"}
IsCommand(msg) == msg.type \in {"read", "write"}

DownShape ==
    /\ pc = "boot" => session = "down"
    /\ session = "down" => subs = {} /\ ~asked /\ inbox = <<>> /\ granted = <<>>

UpShape ==
    /\ asked => inbox = <<>> /\ ~subOk /\ session = "up"
    /\ session = "up" /\ ~subOk => subs \subseteq {Ackuserid}
    /\ \A i \in DOMAIN inbox : IsReply(inbox[i]) => ~asked /\ ~subOk /\ Len(inbox) = 1

OfGrant(dev) == \E i \in DOMAIN granted : granted[i].dev = dev

Subscriptions == \A t \in subs : t = Ackuserid \/ t[1] = GW \/ OfGrant(t[1])

Inbound ==
    \A i \in DOMAIN inbox :
        IsCommand(inbox[i]) =>
            (inbox[i].type \in GatewayCommands /\ inbox[i].dev = GW) \/ OfGrant(inbox[i].dev)

SessionInv ==
    /\ DownShape /\ UpShape /\ Subscriptions /\ Inbound
    /\ TableIsGrant /\ ServingSubscribed

sessionVars == <<cloudVars, subOk, userid, subDevs, numSubDevs>>

\* Power-up has the invariant.
LEMMA InitSession == Init => SessionInv
  BY DEF Init, SessionInv, DownShape, UpShape, Subscriptions, Inbound, TableIsGrant,
         ServingSubscribed, Serving, IsReply, IsCommand

\* A step that leaves the session and the table alone keeps the invariant.
LEMMA KeptSession ==
    ASSUME SessionInv, UNCHANGED sessionVars, pc' = "boot" => pc = "boot"
    PROVE  SessionInv'
<1>1. DownShape' /\ UpShape'
  BY DEF SessionInv, DownShape, UpShape, sessionVars, cloudVars
<1>2. Subscriptions' /\ Inbound'
  BY DEF SessionInv, Subscriptions, Inbound, OfGrant, sessionVars, cloudVars
<1>3. TableIsGrant' /\ ServingSubscribed'
  BY DEF SessionInv, TableIsGrant, ServingSubscribed, Serving, Entries, sessionVars, cloudVars
<1> QED  BY <1>1, <1>2, <1>3 DEF SessionInv

\* Without a session the invariant says only that nothing of one is left.
LEMMA EndedSession ==
    ASSUME SessionEnds
    PROVE  SessionInv'
  BY DEF SessionEnds, SessionInv, DownShape, UpShape, Subscriptions, Inbound, TableIsGrant,
         ServingSubscribed, Serving, IsReply, IsCommand

\* A message taken and not granted leaves the others under the invariant; the
\* table may change only while the gateway is not registered.
LEMMA TakenSession ==
    ASSUME TypeOK, SessionInv, inbox # <<>>, inbox' = Tail(inbox), pc' = "app",
           UNCHANGED <<session, subs, asked, granted, subOk, userid>>,
           subOk => UNCHANGED <<subDevs, numSubDevs>>
    PROVE  SessionInv'
<1>1. inbox \in Seq(Messages) /\ Len(inbox) \in Nat \ {0}
  BY InboxFacts DEF TypeOK
<1>2. \A i \in DOMAIN inbox' : i + 1 \in DOMAIN inbox /\ inbox'[i] = inbox[i + 1]
  BY <1>1
<1>3. DOMAIN inbox' = 1..(Len(inbox) - 1)
  BY <1>1
<1>4. session # "down" /\ ~asked
  BY DEF SessionInv, DownShape, UpShape
<1>5. DownShape'
  BY <1>4 DEF DownShape, TypeOK
<1>6. \A i \in DOMAIN inbox' : ~IsReply(inbox'[i])
  <2> SUFFICES ASSUME NEW i \in DOMAIN inbox', IsReply(inbox'[i]) PROVE FALSE
    OBVIOUS
  <2>1. i + 1 \in DOMAIN inbox /\ IsReply(inbox[i + 1])
    BY <1>2
  <2>2. Len(inbox) = 1
    BY <2>1 DEF SessionInv, UpShape
  <2> QED  BY <1>3, <2>2
<1>7. UpShape'
  BY <1>4, <1>6 DEF SessionInv, UpShape
<1>8. Subscriptions' /\ TableIsGrant' /\ ServingSubscribed'
  <2>1. CASE subOk
    BY <2>1 DEF SessionInv, Subscriptions, TableIsGrant, ServingSubscribed, Serving, Entries, OfGrant
  <2>2. CASE ~subOk
    BY <2>2 DEF SessionInv, Subscriptions, TableIsGrant, ServingSubscribed, Serving, OfGrant
  <2> QED  BY <2>1, <2>2
<1>9. Inbound'
  BY <1>2 DEF SessionInv, Inbound, OfGrant, IsCommand
<1> QED  BY <1>5, <1>7, <1>8, <1>9 DEF SessionInv

\* A command goes to a subscriber, so for a device of the grant.
LEMMA SentSession ==
    ASSUME TypeOK, SessionInv, CloudCommands
    PROVE  SessionInv'
<1>1. PICK cmd \in Commands :
         /\ \E topic \in subs : topic[1] = cmd.dev /\ topic # Ackuserid
         /\ (cmd.type \in {"read", "write"} /\ cmd.dev = GW) => cmd.type \in GatewayCommands
         /\ inbox' = Append(inbox, cmd)
  BY DEF CloudCommands
<1>2. UNCHANGED <<session, subs, asked, granted, subOk, userid, subDevs, numSubDevs, pc>>
  BY DEF CloudCommands, programVars
<1>3. inbox \in Seq(Messages) /\ cmd \in Messages /\ ~IsReply(cmd)
  BY DEF TypeOK, Messages, Commands, IsReply
<1>4. /\ DOMAIN inbox = 1..Len(inbox) /\ Len(inbox) \in Nat
      /\ DOMAIN inbox' = 1..(Len(inbox) + 1) /\ inbox'[Len(inbox) + 1] = cmd
      /\ \A i \in DOMAIN inbox : inbox'[i] = inbox[i]
  BY <1>1, <1>3
<1>5. PICK topic \in subs : topic[1] = cmd.dev /\ topic # Ackuserid
  BY <1>1
<1>6. session = "up" /\ subOk /\ ~asked
  <2>1. session = "up"
    BY <1>5 DEF SessionInv, DownShape, TypeOK
  <2>2. subOk
    BY <1>5, <2>1 DEF SessionInv, UpShape
  <2> QED  BY <2>1, <2>2 DEF SessionInv, UpShape
<1>7. \A i \in DOMAIN inbox : ~IsReply(inbox[i])
  BY <1>6 DEF SessionInv, UpShape
<1>8. \A i \in DOMAIN inbox' : ~IsReply(inbox'[i])
  BY <1>3, <1>4, <1>7
<1>9. DownShape' /\ UpShape'
  <2>1. DownShape'
    BY <1>2, <1>6 DEF SessionInv, DownShape
  <2> QED  BY <1>2, <1>6, <1>8, <2>1 DEF UpShape
<1>10. Subscriptions' /\ TableIsGrant' /\ ServingSubscribed'
  BY <1>2 DEF SessionInv, Subscriptions, TableIsGrant, ServingSubscribed, Serving, Entries, OfGrant
<1>11. IsCommand(cmd) => (cmd.type \in GatewayCommands /\ cmd.dev = GW) \/ OfGrant(cmd.dev)
  <2>1. cmd.dev = GW \/ OfGrant(cmd.dev)
    BY <1>5 DEF SessionInv, Subscriptions
  <2> QED  BY <1>1, <2>1 DEF IsCommand
<1>12. Inbound'
  <2>1. \A dev : OfGrant(dev)' <=> OfGrant(dev)
    BY <1>2 DEF OfGrant
  <2>2. ASSUME NEW i \in DOMAIN inbox', IsCommand(inbox'[i])
        PROVE  (inbox'[i].type \in GatewayCommands /\ inbox'[i].dev = GW) \/ OfGrant(inbox'[i].dev)
    <3>1. CASE i = Len(inbox) + 1
      BY <1>4, <1>11, <2>2, <3>1
    <3>2. CASE i # Len(inbox) + 1
      <4>1. i \in DOMAIN inbox /\ inbox'[i] = inbox[i]
        BY <1>4, <2>2, <3>2
      <4> QED  BY <2>2, <4>1 DEF SessionInv, Inbound
    <3> QED  BY <3>1, <3>2
  <2> QED  BY <1>2, <2>2 DEF Inbound, OfGrant
<1> QED  BY <1>9, <1>10, <1>12 DEF SessionInv

\* The reply comes alone.
LEMMA AnsweredSession ==
    ASSUME TypeOK, SessionInv, CloudAnswers
    PROVE  SessionInv'
<1>1. PICK reply \in Replies : inbox' = Append(inbox, reply)
  BY DEF CloudAnswers
<1>2. UNCHANGED <<session, subs, granted, subOk, userid, subDevs, numSubDevs, pc>> /\ asked /\ ~asked'
  BY DEF CloudAnswers, programVars
<1>3. inbox = <<>> /\ ~subOk /\ session = "up"
  BY <1>2 DEF SessionInv, UpShape
<1>4. inbox' = <<reply>>
  BY <1>1, <1>3
<1>5. Len(inbox') = 1 /\ DOMAIN inbox' = {1} /\ inbox'[1] = reply /\ IsReply(reply)
  BY <1>4 DEF Replies, IsReply
<1>6. DownShape' /\ UpShape'
  <2>1. DownShape'
    BY <1>2, <1>3 DEF SessionInv, DownShape
  <2> QED  BY <1>2, <1>3, <1>5, <2>1 DEF SessionInv, UpShape
<1>7. Inbound'
  BY <1>5 DEF Inbound, IsReply, IsCommand
<1>8. Subscriptions' /\ TableIsGrant' /\ ServingSubscribed'
  BY <1>2 DEF SessionInv, Subscriptions, TableIsGrant, ServingSubscribed, Serving, Entries, OfGrant
<1> QED  BY <1>6, <1>7, <1>8 DEF SessionInv

\* The grant: the table becomes its list, and its topics are subscribed.
LEMMA GrantedSession ==
    ASSUME TypeOK, SessionInv, AckuseridOk
    PROVE  SessionInv'
<1> DEFINE rows == Head(inbox).rows
           user == Head(inbox).user
<1>0. ReceiveAckuserid("ok")
  BY DEF AckuseridOk
<1>1. /\ inbox # <<>> /\ Head(inbox) \in Messages /\ Head(inbox).type = "ackuserid"
      /\ Head(inbox) = inbox[1] /\ Head(inbox).cmd = "ok"
  BY <1>0, CopyTypes
<1>2. user \in Users /\ rows \in Seq(Rows) /\ rows # <<>> /\ Len(rows) <= SUBDEV_MAX_SIZE
  BY <1>1, ReplyFacts
<1>3. /\ subDevs' = Copied(rows) /\ numSubDevs' = Len(rows) /\ userid' = user
      /\ subs' = subs \cup ReadWrite(GW, user) \cup SubDevTopics(rows, user)
      /\ granted' = rows /\ subOk' /\ inbox' = Tail(inbox) /\ pc' = "app"
      /\ UNCHANGED <<session, asked>>
  BY <1>0 DEF AckuseridOk, ReceiveAckuserid
<1>4. inbox \in Seq(Messages) /\ Len(inbox) \in Nat \ {0}
  BY <1>1, InboxFacts DEF TypeOK
<1>5. session = "up" /\ ~asked /\ ~subOk /\ Len(inbox) = 1
  <2>1. 1 \in DOMAIN inbox /\ IsReply(inbox[1])
    BY <1>1, <1>4 DEF IsReply
  <2> QED  BY <1>1, <2>1 DEF SessionInv, UpShape, DownShape, TypeOK
<1>6. inbox' = <<>>
  BY <1>3, <1>4, <1>5
<1>7. DownShape'
  BY <1>3, <1>5 DEF DownShape
<1>8. UpShape' /\ Inbound'
  BY <1>3, <1>5, <1>6 DEF UpShape, Inbound
<1>9. subs \subseteq {Ackuserid}
  BY <1>5 DEF SessionInv, UpShape
<1>10. Subscriptions'
  BY <1>2, <1>3, <1>9, TopicFacts DEF Subscriptions, OfGrant
<1>11. \A i \in DOMAIN rows : i \in Slots /\ Copied(rows)[i] = rows[i] /\ rows[i] \in Rows
  BY <1>2, CopiedFacts
<1>12. TableIsGrant'
  BY <1>2, <1>3, <1>11 DEF TableIsGrant
<1>13. ASSUME NEW i \in Entries' PROVE i \in DOMAIN rows /\ subDevs'[i] = rows[i]
  <2>1. i \in Slots /\ i <= Len(rows)
    BY <1>3, <1>13 DEF Entries
  <2>2. DOMAIN rows = 1..Len(rows)
    BY <1>2
  <2>3. i \in DOMAIN rows
    BY <2>1, <2>2, SizeAssumption DEF Slots
  <2> QED  BY <1>3, <1>11, <2>3
<1>14. \A i \in DOMAIN rows : ReadWrite(rows[i].dev, rows[i].user) \subseteq SubDevTopics(rows, user)
  BY DEF SubDevTopics
<1>15. ServingSubscribed'
  BY <1>3, <1>13, <1>14 DEF ServingSubscribed
<1> QED  BY <1>7, <1>8, <1>10, <1>12, <1>15 DEF SessionInv

\* Before it connects, gwRun() forgets the registration, so the new session
\* starts without one.
LEMMA ConnectedSession ==
    ASSUME TypeOK, SessionInv, RunConnects \/ RunFailsToConnect
    PROVE  SessionInv'
<1>1. session = "down" /\ pc' \in {"poll", "ap"} /\ UNCHANGED <<inbox, granted>> /\ ~subOk'
  BY DEF RunConnects, RunFailsToConnect, ForgetSession, SubOkOnReconnect, cloudVars
<1>2. inbox' = <<>> /\ granted' = <<>>
  BY <1>1 DEF SessionInv, DownShape
<1>3. /\ session' = "down" => subs' = {} /\ ~asked'
      /\ session' = "up" => subs' = {Ackuserid}
      /\ asked' => session' = "up"
  BY <1>1 DEF RunConnects, RunFailsToConnect, SubsAfterConnect, SessionInv, DownShape, cloudVars
<1>4. DownShape' /\ UpShape'
  BY <1>1, <1>2, <1>3 DEF DownShape, UpShape
<1>5. session' \in {"up", "down"}
  BY DEF RunConnects, RunFailsToConnect, cloudVars, TypeOK
<1>6. Subscriptions' /\ Inbound'
  BY <1>2, <1>3, <1>5 DEF Subscriptions, Inbound
<1>7. TableIsGrant' /\ ServingSubscribed'
  BY <1>1 DEF TableIsGrant, ServingSubscribed, Serving
<1> QED  BY <1>4, <1>6, <1>7 DEF SessionInv

\* Every step keeps the invariant of the session.
LEMMA SessionStep == TypeOK /\ SessionInv /\ [Next]_vars => SessionInv'
<1> SUFFICES ASSUME TypeOK, SessionInv, [Next]_vars PROVE SessionInv'
  OBVIOUS
<1>1. CASE Boot
  <2>1. session' = "down" /\ subs' = {} /\ ~asked' /\ inbox' = <<>> /\ granted' = <<>>
    BY <1>1 DEF Boot, SessionInv, DownShape, cloudVars
  <2> QED
    BY <2>1 DEF SessionInv, DownShape, UpShape, Subscriptions, Inbound, TableIsGrant,
                ServingSubscribed, Serving
<1>2. CASE RunStart \/ WifiPoll \/ RunGoesOn \/ PollNothing \/ AppReturns
  <2>1. UNCHANGED sessionVars /\ pc' # "boot"
    BY <1>2 DEF RunStart, WifiPoll, RunGoesOn, PollNothing, AppReturns, sessionVars, cloudVars
  <2> QED  BY <2>1, KeptSession
<1>3. CASE AppPublishes \/ WifiJoins \/ WifiLost \/ CalmComes \/ UNCHANGED vars
  <2>1. UNCHANGED sessionVars /\ UNCHANGED pc
    BY <1>3 DEF AppPublishes, WifiJoins, WifiLost, CalmComes, vars, sessionVars, programVars, cloudVars
  <2> QED  BY <2>1, KeptSession
<1>4. CASE Tick
  <2>1. UNCHANGED sessionVars /\ UNCHANGED pc
    BY <1>4 DEF Tick, sessionVars, cloudVars
  <2> QED  BY <2>1, KeptSession
<1>5. CASE RunConnects \/ RunFailsToConnect
  BY <1>5, ConnectedSession
<1>6. CASE AckuseridOk
  BY <1>6, GrantedSession
<1>7. CASE AckuseridRedirect \/ ApExpires \/ ApUserSaves \/ SessionDrops
  BY <1>7, EndedSession DEF AckuseridRedirect, ReceiveAckuserid, ApExpires, ApUserSaves, SessionDrops, Reset
<1>8. CASE AckuseridMalformed \/ CommandToDevice
  BY <1>8, TakenSession DEF AckuseridMalformed, CommandToDevice, Receive
<1>13. CASE AckuseridOther
  <2>1. /\ inbox # <<>> /\ inbox' = Tail(inbox) /\ pc' = "app"
        /\ UNCHANGED <<session, subs, asked, granted, subOk, userid>>
    BY <1>13, CopyTypes DEF AckuseridOther
  <2>2. 1 \in DOMAIN inbox /\ IsReply(inbox[1])
    BY <1>13, CopyTypes DEF AckuseridOther, IsReply
  <2>3. ~subOk
    BY <2>2 DEF SessionInv, UpShape
  <2> QED  BY <2>1, <2>3, TakenSession
<1>9. CASE WifiClear \/ Update
  <2>1. CASE Reset
    BY <2>1, EndedSession DEF Reset
  <2>2. CASE ~Reset
    BY <1>9, <2>2, TakenSession DEF WifiClear, Update, Receive
  <2> QED  BY <2>1, <2>2
<1>10. CASE CloudAnswers
  BY <1>10, AnsweredSession
<1>11. CASE CloudCommands
  BY <1>11, SentSession
<1>12. CASE CloudForgets
  <2>1. UNCHANGED <<session, subs, inbox, granted, subOk, userid, subDevs, numSubDevs, pc>> /\ ~asked'
    BY <1>12 DEF CloudForgets, programVars
  <2>2. DownShape' /\ UpShape'
    BY <2>1 DEF SessionInv, DownShape, UpShape, IsReply
  <2>3. Subscriptions' /\ Inbound' /\ TableIsGrant' /\ ServingSubscribed'
    BY <2>1 DEF SessionInv, Subscriptions, Inbound, OfGrant, IsCommand, TableIsGrant,
                ServingSubscribed, Serving, Entries
  <2> QED  BY <2>2, <2>3 DEF SessionInv
<1> QED
  BY <1>1, <1>2, <1>3, <1>4, <1>5, <1>6, <1>7, <1>8, <1>9, <1>10, <1>11, <1>12, <1>13 DEF Next

\* Types and the session's invariant hold in every reachable state.
THEOREM SessionInvariance == Spec => [](TypeOK /\ SessionInv)
<1>1. Init => SessionInv
  BY InitSession
<1>2. TypeOK /\ SessionInv /\ [Next]_vars => SessionInv'
  BY SessionStep
<1> QED  BY <1>1, <1>2, SessionTypeCorrect, PTL DEF Spec

\* A registered gateway works with the list granted in this very session: no
\* entry of the table remains from before, for any order of grants, drops,
\* resets and commands.
THEOREM TableIsGrantHolds == Spec => []TableIsGrant
  BY SessionInvariance, PTL DEF SessionInv

\* A registered gateway can be reached under its own topics and those of every
\* entry.
THEOREM ServingSubscribedHolds == Spec => []ServingSubscribed
  BY SessionInvariance, PTL DEF SessionInv

-----------------------------------------------------------------------------
(* Steps. *)

\* Entries of the table of a registered gateway are rows of the grant.
LEMMA EntriesOfGrant ==
    ASSUME TypeOK, SessionInv, Serving
    PROVE  \A i \in Entries : i \in DOMAIN granted /\ subDevs[i] = granted[i]
<1> SUFFICES ASSUME NEW i \in Entries PROVE i \in DOMAIN granted /\ subDevs[i] = granted[i]
  OBVIOUS
<1>1. granted \in Seq(Rows) /\ numSubDevs = Len(granted)
  BY TablesAssumption DEF TypeOK, SessionInv, TableIsGrant
<1>2. i \in 1..SUBDEV_MAX_SIZE /\ i <= numSubDevs
  BY DEF Entries, Slots
<1>3. i \in DOMAIN granted
  BY <1>1, <1>2, SizeAssumption
<1> QED  BY <1>3 DEF SessionInv, TableIsGrant

\* A registered gateway finds the entry of a device of the grant.
LEMMA GrantFound ==
    ASSUME TypeOK, SessionInv, Serving, NEW dev, OfGrant(dev)
    PROVE  Found(dev) # {}
<1>1. PICK j \in DOMAIN granted : granted[j].dev = dev
  BY DEF OfGrant
<1>2. granted \in Seq(Rows) /\ granted # <<>> /\ Len(granted) <= SUBDEV_MAX_SIZE
  BY TablesAssumption DEF TypeOK, SessionInv, TableIsGrant
<1>3. j \in Slots /\ j <= Len(granted)
  BY <1>2, SizeAssumption DEF Slots
<1>4. subDevs[j] = granted[j] /\ numSubDevs = Len(granted)
  BY DEF SessionInv, TableIsGrant
<1>5. granted[j] # Blank
  BY <1>2, BlankAssumption
<1> QED  BY <1>1, <1>3, <1>4, <1>5 DEF Found, Entries

\* A command that is carried out is one for the gateway itself or for a device
\* of the grant.
LEMMA CommandOfGrant ==
    ASSUME TypeOK, SessionInv, CommandToDevice, subOk
    PROVE  /\ Serving
           /\ \/ Head(inbox).dev = GW /\ Head(inbox).type \in GatewayCommands
              \/ OfGrant(Head(inbox).dev)
<1>1. inbox # <<>> /\ IsCommand(Head(inbox))
  BY DEF CommandToDevice, Receive, IsCommand
<1>2. 1 \in DOMAIN inbox /\ Head(inbox) = inbox[1]
  BY <1>1, InboxFacts DEF TypeOK
<1>3. session = "up"
  BY <1>1 DEF SessionInv, DownShape, TypeOK
<1> QED  BY <1>1, <1>2, <1>3 DEF Serving, SessionInv, Inbound

\* What a callback for a sub-device is given: the granted address, copied over
\* something that the stack held.
LEMMA CommandStep ==
    ASSUME TypeOK, SessionInv, CommandToDevice, Calls, called'.dev # GW
    PROVE  \E i \in DOMAIN granted, rest \in Leftovers :
               /\ granted[i] \in Rows /\ granted[i].dev = called'.dev
               /\ called'.addr = Atol(Str(StrNCpy(rest, granted[i].addr)))
<1> DEFINE cmd == Head(inbox)
           slot == First(Found(cmd.dev))
<1>1. subOk
  BY DEF CommandToDevice, outVars, Calls
<1>2. PICK addr \in DecodedAddrs(cmd.dev) : called' = [dev |-> cmd.dev, addr |-> addr]
  BY <1>1 DEF CommandToDevice
<1>3. Serving /\ OfGrant(cmd.dev)
  BY <1>1, <1>2, CommandOfGrant
<1>4. Found(cmd.dev) # {}
  BY <1>3, GrantFound
<1>5. PICK rest \in Leftovers : addr = Atol(Str(StrNCpy(rest, subDevs[slot].addr)))
  BY <1>2, <1>4 DEF DecodedAddrs
<1>6. slot \in Entries /\ subDevs[slot].dev = cmd.dev
  BY <1>4, FoundFacts
<1>7. slot \in DOMAIN granted /\ subDevs[slot] = granted[slot] /\ granted[slot] \in Rows
  BY <1>3, <1>6, EntriesOfGrant, EntryFacts
<1> QED  BY <1>2, <1>5, <1>6, <1>7

\* What a callback for the gateway itself is given: what the stack held.
LEMMA GatewayStep ==
    ASSUME TypeOK, SessionInv, CommandToDevice, Calls, called'.dev = GW
    PROVE  \E rest \in Leftovers : called'.addr = Atol(Str(rest))
<1>1. subOk
  BY DEF CommandToDevice, outVars, Calls
<1>2. PICK addr \in DecodedAddrs(Head(inbox).dev) : called' = [dev |-> Head(inbox).dev, addr |-> addr]
  BY <1>1 DEF CommandToDevice
<1>3. Found(GW) = {}
  BY EntryFacts, RowsAssumption DEF Found
<1> QED  BY <1>2, <1>3 DEF DecodedAddrs

\* An address that was copied over what the stack held: it begins as granted,
\* and is the granted one where the stack ends the text.
LEMMA CopiedAddr ==
    ASSUME NEW row \in Rows, NEW rest \in Leftovers
    PROVE  LET addr == Atol(Str(StrNCpy(rest, row.addr)))
           IN  /\ Begins(addr, row.addr)
               /\ rest[Len(row.addr) + 1] = Nul => addr = row.addr
<1> DEFINE n == Len(row.addr)
           text == Str(StrNCpy(rest, row.addr))
<1>1. /\ AddrCells \in Nat /\ Len(rest) = AddrCells /\ n \in 1..(AddrCells - 1)
      /\ row.addr = [i \in 1..n |-> row.addr[i]] /\ \A i \in 1..n : row.addr[i] # Nul
  BY AddrAssumption, LeftoverFacts, AddrFacts
<1>2. n \in 0..AddrCells
  BY <1>1
<1>3. /\ Begins(text, row.addr)
      /\ (n < AddrCells => rest[n + 1] = Nul) => text = row.addr
  <2> HIDE DEF n
  <2> QED  BY <1>1, <1>2, CopiedText DEF n
<1>4. text # <<>>
  BY <1>1, <1>3 DEF Begins
<1>5. Atol(text) = text
  BY <1>4 DEF Atol
<1> QED  BY <1>3, <1>5

\* Only a command calls back.
LEMMA OnlyCommandsCall ==
    ASSUME [Next]_vars, Calls
    PROVE  CommandToDevice
<1> USE DEF Calls
<1>1. CASE Boot \/ RunStart \/ WifiPoll \/ RunGoesOn \/ RunConnects \/ RunFailsToConnect
  BY <1>1 DEF Boot, RunStart, WifiPoll, RunGoesOn, RunConnects, RunFailsToConnect, outVars
<1>2. CASE PollNothing \/ AckuseridOk \/ AckuseridMalformed \/ AckuseridOther \/ AckuseridRedirect \/ WifiClear
  BY <1>2 DEF PollNothing, AckuseridOk, AckuseridMalformed, AckuseridOther, ReceiveAckuserid, AckuseridRedirect, WifiClear, outVars
<1>3. CASE Update \/ AppPublishes \/ AppReturns \/ ApExpires \/ ApUserSaves
  BY <1>3 DEF Update, AppPublishes, AppReturns, ApExpires, ApUserSaves, outVars
<1>4. CASE WifiJoins \/ WifiLost \/ SessionDrops \/ CloudAnswers \/ CloudForgets
  BY <1>4 DEF WifiJoins, WifiLost, SessionDrops, CloudAnswers, CloudForgets, outVars
<1>5. CASE CloudCommands \/ Tick \/ CalmComes \/ UNCHANGED vars
  BY <1>5 DEF CloudCommands, Tick, CalmComes, vars, outVars
<1> QED  BY <1>1, <1>2, <1>3, <1>4, <1>5 DEF Next

\* Whatever the stack held and whatever was granted in earlier sessions, a
\* callback for a sub-device is given the digits of its address and at most
\* some behind them: no command of gwMQTTDataParse() begins with another's.
THEOREM AddressBeginsAsGrantedHolds == Spec => AddressBeginsAsGranted
<1>1. TypeOK /\ SessionInv /\ [Next]_vars =>
         [Calls /\ called'.dev # GW =>
              \E i \in DOMAIN granted :
                 granted[i].dev = called'.dev /\ Begins(called'.addr, granted[i].addr)]_vars
  BY OnlyCommandsCall, CommandStep, CopiedAddr
<1> QED  BY <1>1, SessionInvariance, PTL DEF Spec, AddressBeginsAsGranted

\* The stack ends the text of every address the cloud may grant.
EndsMet == \A rest \in Leftovers, row \in Rows : rest[Len(row.addr) + 1] = Nul

SubDevicesReached ==
    [][Calls /\ called'.dev # GW =>
          \E i \in DOMAIN granted :
              granted[i].dev = called'.dev /\ granted[i].addr = called'.addr]_vars

\* What keeps a command from the sub-device it is meant for is the digit that
\* the stack holds behind the copied ones, and nothing else: neither the order
\* of grants, nor commands for the gateway itself.
THEOREM SubDevicesReachedHolds == EndsMet => (Spec => SubDevicesReached)
<1> SUFFICES ASSUME EndsMet PROVE Spec => SubDevicesReached
  OBVIOUS
<1>1. TypeOK /\ SessionInv /\ [Next]_vars =>
         [Calls /\ called'.dev # GW =>
              \E i \in DOMAIN granted :
                 granted[i].dev = called'.dev /\ granted[i].addr = called'.addr]_vars
  BY OnlyCommandsCall, CommandStep, CopiedAddr DEF EndsMet
<1> QED  BY <1>1, SessionInvariance, PTL DEF Spec, SubDevicesReached

\* The stack as memset() would leave it.
CleanStack == \A rest \in Leftovers : rest = Zeros(AddrCells)

\* Had the decoders cleared their structure, every callback would get the
\* address that was granted, and the 0 of the gateway itself: one memset() is
\* all that AddressAsGranted asks for.
THEOREM AddressAsGrantedHolds == CleanStack => (Spec => AddressAsGranted)
<1> SUFFICES ASSUME CleanStack PROVE Spec => AddressAsGranted
  OBVIOUS
<1>1. \A rest \in Leftovers, row \in Rows : rest[Len(row.addr) + 1] = Nul
  <2> SUFFICES ASSUME NEW rest \in Leftovers, NEW row \in Rows
               PROVE  rest[Len(row.addr) + 1] = Nul
    OBVIOUS
  <2>1. Len(row.addr) + 1 \in 1..AddrCells
    <3>1. Len(row.addr) \in 1..(AddrCells - 1)
      BY AddrFacts, Zenon
    <3> QED  BY <3>1, AddrAssumption
  <2>2. rest = [i \in 1..AddrCells |-> Nul]
    BY DEF CleanStack, Zeros
  <2> QED  BY <2>1, <2>2
<1>2. \A rest \in Leftovers : Atol(Str(rest)) = GatewayAddr
  <2> SUFFICES ASSUME NEW rest \in Leftovers PROVE Atol(Str(rest)) = GatewayAddr
    OBVIOUS
  <2>1. AddrCells \in Nat \ {0} /\ Len(rest) = AddrCells /\ \A i \in 1..AddrCells : rest[i] = Nul
    BY AddrAssumption, LeftoverFacts DEF CleanStack, Zeros
  <2>2. StrLen(rest) \in 0..AddrCells /\ \A i \in 1..StrLen(rest) : rest[i] # Nul
    BY <2>1, StrLenFacts
  <2>3. StrLen(rest) = 0
    <3> DEFINE k == StrLen(rest)
    <3>1. k # 0 => 1 \in 1..k /\ 1 \in 1..AddrCells
      BY <2>1, <2>2
    <3> HIDE DEF k
    <3> QED  BY <2>1, <2>2, <3>1 DEF k
  <2>4. Str(rest) = <<>>
    BY <2>3 DEF Str
  <2> QED  BY <2>4 DEF Atol
<1>3. TypeOK /\ SessionInv /\ [Next]_vars =>
         [Calls =>
             \/ called'.dev = GW /\ called'.addr = GatewayAddr
             \/ \E i \in DOMAIN granted :
                   granted[i].dev = called'.dev /\ granted[i].addr = called'.addr]_vars
  <2> SUFFICES ASSUME TypeOK, SessionInv, [Next]_vars, Calls
               PROVE  \/ called'.dev = GW /\ called'.addr = GatewayAddr
                      \/ \E i \in DOMAIN granted :
                            granted[i].dev = called'.dev /\ granted[i].addr = called'.addr
    OBVIOUS
  <2>1. CommandToDevice
    BY OnlyCommandsCall
  <2>2. CASE called'.dev = GW
    BY <1>2, <2>1, <2>2, GatewayStep
  <2>3. CASE called'.dev # GW
    BY <1>1, <2>1, <2>3, CommandStep, CopiedAddr
  <2> QED  BY <2>2, <2>3
<1> QED  BY <1>3, SessionInvariance, PTL DEF Spec, AddressAsGranted

-----------------------------------------------------------------------------
(* Patience: the window of gwRun() is never older than the time without a     *)
(* session, since every session closes it.                                    *)

WindowInSilence ==
    /\ session = "up" => remoteFirst
    /\ ~remoteFirst => remoteAge <= downFor

\* Every step keeps the window within the time without a session.
LEMMA WindowStep == TypeOK /\ WindowInSilence /\ [Next]_vars => WindowInSilence'
<1> SUFFICES ASSUME TypeOK, WindowInSilence, [Next]_vars PROVE WindowInSilence'
  OBVIOUS
<1>0. RemoteWindow \in Nat /\ remoteAge \in 0..(RemoteWindow + 1) /\ downFor \in 0..(RemoteWindow + 1)
  BY WindowAssumption DEF TypeOK
<1>1. CASE UNCHANGED <<session, remoteFirst, remoteAge, downFor>>
  BY <1>1 DEF WindowInSilence
<1>2. CASE session' = "down" /\ UNCHANGED <<remoteFirst, remoteAge, downFor>>
  BY <1>2 DEF WindowInSilence
<1>3. CASE Boot \/ RunConnects
  <2>1. remoteFirst'
    BY <1>3 DEF Boot, RunConnects, RemoteFirstOnSuccess
  <2> QED  BY <2>1 DEF WindowInSilence
<1>4. CASE RunFailsToConnect
  <2>1. session' = "down" /\ downFor' = downFor
    BY <1>4 DEF RunFailsToConnect, cloudVars
  <2>2. remoteAge' <= downFor'
    <3>1. CASE remoteFirst
      BY <1>0, <1>4, <2>1, <3>1 DEF RunFailsToConnect
    <3>2. CASE ~remoteFirst
      BY <1>4, <2>1, <3>2 DEF RunFailsToConnect, WindowInSilence
    <3> QED  BY <3>1, <3>2
  <2> QED  BY <2>1, <2>2 DEF WindowInSilence
<1>5. CASE Tick
  <2>1. UNCHANGED <<session, remoteFirst>>
    BY <1>5 DEF Tick, cloudVars
  <2>2. CASE remoteFirst
    BY <2>1, <2>2 DEF WindowInSilence
  <2>3. CASE ~remoteFirst
    <3>1. session # "up" /\ remoteAge <= downFor
      BY <2>3 DEF WindowInSilence
    <3>2. remoteAge' = Older(remoteAge) /\ downFor' = Older(downFor)
      BY <1>5, <2>3, <3>1 DEF Tick
    <3>3. remoteAge' <= downFor'
      BY <1>0, <3>1, <3>2 DEF Older
    <3> QED  BY <2>1, <3>1, <3>3 DEF WindowInSilence
  <2> QED  BY <2>2, <2>3
<1>6. CASE RunStart \/ WifiPoll \/ RunGoesOn \/ PollNothing \/ AppReturns \/ AppPublishes
  <2>1. UNCHANGED <<session, remoteFirst, remoteAge, downFor>>
    BY <1>6 DEF RunStart, WifiPoll, RunGoesOn, PollNothing, AppReturns, AppPublishes,
                programVars, cloudVars, envVars
  <2> QED  BY <1>1, <2>1
<1>7. CASE AckuseridOk \/ AckuseridMalformed \/ AckuseridOther \/ CommandToDevice
  <2>1. UNCHANGED <<session, remoteFirst, remoteAge, downFor>>
    BY <1>7 DEF AckuseridOk, AckuseridMalformed, AckuseridOther, ReceiveAckuserid, CommandToDevice, envVars
  <2> QED  BY <1>1, <2>1
<1>8. CASE WifiClear \/ Update
  <2>1. UNCHANGED <<remoteFirst, remoteAge, downFor>> /\ (session' = "down" \/ UNCHANGED session)
    BY <1>8 DEF WifiClear, Update, Reset, SessionEnds, envVars
  <2> QED  BY <1>1, <1>2, <2>1
<1>9. CASE AckuseridRedirect \/ ApExpires \/ ApUserSaves \/ SessionDrops
  <2>1. session' = "down" /\ UNCHANGED <<remoteFirst, remoteAge, downFor>>
    BY <1>9 DEF AckuseridRedirect, ReceiveAckuserid, ApExpires, ApUserSaves, SessionDrops, Reset, SessionEnds,
                programVars, envVars
  <2> QED  BY <1>2, <2>1
<1>10. CASE WifiJoins \/ WifiLost \/ CloudAnswers \/ CloudForgets \/ CloudCommands \/ CalmComes
  <2>1. UNCHANGED <<session, remoteFirst, remoteAge, downFor>>
    BY <1>10 DEF WifiJoins, WifiLost, CloudAnswers, CloudForgets, CloudCommands, CalmComes,
                 programVars, cloudVars, envVars
  <2> QED  BY <1>1, <2>1
<1>11. CASE UNCHANGED vars
  <2>1. UNCHANGED <<session, remoteFirst, remoteAge, downFor>>
    BY <1>11 DEF vars, programVars, cloudVars, envVars
  <2> QED  BY <1>1, <2>1
<1> QED
  BY <1>3, <1>4, <1>5, <1>6, <1>7, <1>8, <1>9, <1>10, <1>11 DEF Next

\* From the check of the session, only a failed connect() leads to AP mode.
LEMMA OnlyFailuresGiveUp ==
    ASSUME [Next]_vars, pc = "check", pc' = "ap"
    PROVE  RunFailsToConnect
<1>1. CASE Boot \/ RunStart \/ WifiPoll \/ RunGoesOn \/ RunConnects
  BY <1>1 DEF Boot, RunStart, WifiPoll, RunGoesOn, RunConnects
<1>2. CASE PollNothing \/ AckuseridOk \/ AckuseridMalformed \/ AckuseridOther \/ AckuseridRedirect
  BY <1>2 DEF PollNothing, AckuseridOk, AckuseridMalformed, AckuseridOther, ReceiveAckuserid, AckuseridRedirect, Receive
<1>3. CASE CommandToDevice \/ WifiClear \/ Update \/ AppReturns \/ ApExpires \/ ApUserSaves
  BY <1>3 DEF CommandToDevice, WifiClear, Update, AppReturns, ApExpires, ApUserSaves, Receive
<1>4. CASE AppPublishes \/ WifiJoins \/ WifiLost \/ SessionDrops \/ CloudAnswers
  BY <1>4 DEF AppPublishes, WifiJoins, WifiLost, SessionDrops, CloudAnswers, programVars
<1>5. CASE CloudForgets \/ CloudCommands \/ Tick \/ CalmComes \/ UNCHANGED vars
  BY <1>5 DEF CloudForgets, CloudCommands, Tick, CalmComes, vars, programVars
<1> QED  BY <1>1, <1>2, <1>3, <1>4, <1>5 DEF Next

\* gwRun() turns to AP mode only after the whole window without any session,
\* for any window and any interleaving of short sessions and failures.
THEOREM PatienceHolds == Spec => PatienceBeforeAP
<1>1. Init => WindowInSilence
  BY DEF Init, WindowInSilence
<1>2. TypeOK /\ WindowInSilence /\ [Next]_vars => WindowInSilence'
  BY WindowStep
<1>3. TypeOK /\ WindowInSilence /\ [Next]_vars =>
         [pc = "check" /\ pc' = "ap" => downFor > RemoteWindow]_vars
  <2> SUFFICES ASSUME TypeOK, WindowInSilence, [Next]_vars, pc = "check", pc' = "ap"
               PROVE  downFor > RemoteWindow
    OBVIOUS
  <2>1. RunFailsToConnect
    BY OnlyFailuresGiveUp
  <2>2. ~remoteFirst /\ remoteAge > RemoteWindow
    BY <2>1 DEF RunFailsToConnect
  <2>3. remoteAge <= downFor
    BY <2>2 DEF WindowInSilence
  <2>4. RemoteWindow \in Nat /\ remoteAge \in 0..(RemoteWindow + 1) /\ downFor \in 0..(RemoteWindow + 1)
    BY WindowAssumption DEF TypeOK
  <2> QED  BY <2>2, <2>3, <2>4
<1> QED  BY <1>1, <1>2, <1>3, SessionTypeCorrect, PTL DEF Spec, PatienceBeforeAP

-----------------------------------------------------------------------------
(* The gateway as the device the cloud relies on. *)

\* A step that leaves the session, the grant and the last report alone is a
\* stutter.
LEMMA LinkStutters ==
    ASSUME UNCHANGED <<session, subOk, granted, sent>>
    PROVE  UNCHANGED Link!vars
  BY DEF Link!vars, LinkState, LinkGrant, Serving

\* The end of a session breaks the connection, with its grant.
LEMMA LinkBreaks ==
    ASSUME TypeOK, SessionEnds, UNCHANGED <<subOk, sent>>
    PROVE  [Link!Next]_(Link!vars)
<1>1. LinkState' = "off" /\ LinkGrant' = {}
  BY DEF SessionEnds, LinkState, LinkGrant, Serving
<1>2. CASE session = "down"
  BY <1>1, <1>2 DEF LinkState, LinkGrant, Serving, Link!vars
<1>3. CASE session = "up"
  <2>1. LinkState # "off"
    BY <1>3 DEF LinkState
  <2> QED  BY <1>1, <2>1 DEF Link!Break, Link!Next
<1> QED  BY <1>2, <1>3 DEF TypeOK

\* What a registered gateway publishes is a sub-device of the grant.
LEMMA LinkReports ==
    ASSUME TypeOK, SessionInv, Serving, NEW i \in Entries, sent' = subDevs[i],
           UNCHANGED <<session, subOk, granted>>
    PROVE  Link!Next
<1>1. sent' \in LinkGrant
  BY EntriesOfGrant DEF LinkGrant
<1>2. LinkState = "serving" /\ UNCHANGED <<LinkState, LinkGrant>>
  BY DEF LinkState, LinkGrant, Serving
<1> QED  BY <1>1, <1>2 DEF Link!Report, Link!Next

\* An ackuserid is the grant of a connection that had none.
LEMMA LinkGrants ==
    ASSUME TypeOK, SessionInv, SessionInv', AckuseridOk
    PROVE  Link!Next
<1>1. /\ inbox # <<>> /\ Head(inbox) \in Messages /\ Head(inbox).type = "ackuserid"
      /\ Head(inbox) = inbox[1] /\ 1 \in DOMAIN inbox
  BY CopyTypes DEF AckuseridOk
<1>2. 1 \in DOMAIN inbox /\ IsReply(inbox[1])
  BY <1>1 DEF IsReply
<1>3. session = "up" /\ ~subOk
  BY <1>1, <1>2 DEF SessionInv, UpShape, DownShape, TypeOK
<1>4. session' = "up" /\ subOk' /\ granted' = Head(inbox).rows /\ sent' = sent
  BY <1>3 DEF AckuseridOk, ReceiveAckuserid, outVars
<1>5. granted' \in Seq(Rows) /\ granted' # <<>>
  BY <1>1, <1>4, ReplyFacts
<1>6. LinkState = "linked" /\ LinkState' = "serving"
  BY <1>3, <1>4 DEF LinkState
<1>7. LinkGrant' = {granted'[i] : i \in DOMAIN granted'}
  BY <1>4 DEF LinkGrant, Serving
<1>8. LinkGrant' \in (SUBSET Rows) \ {{}}
  <2>1. \A i \in DOMAIN granted' : granted'[i] \in Rows
    BY <1>5
  <2>2. 1 \in DOMAIN granted'
    BY <1>5
  <2> QED  BY <1>7, <2>1, <2>2
<1> QED  BY <1>4, <1>6, <1>8 DEF Link!Grant, Link!Next

\* Every step of the gateway is one of the device's or a stutter.
LEMMA LinkStep ==
    ASSUME "read" \notin GatewayCommands, TypeOK, SessionInv, SessionInv', [Next]_vars
    PROVE  [Link!Next]_(Link!vars)
<1>1. CASE Boot \/ RunFailsToConnect
  <2>1. session = "down" /\ session' = "down" /\ sent' = sent
    BY <1>1 DEF Boot, RunFailsToConnect, SessionInv, DownShape, cloudVars, outVars
  <2> QED  BY <2>1 DEF LinkState, LinkGrant, Serving, Link!vars
<1>2. CASE RunConnects
  <2>1. session = "down" /\ session' = "up" /\ ~subOk' /\ sent' = sent
    BY <1>2 DEF RunConnects, ForgetSession, SubOkOnReconnect, outVars
  <2>2. LinkState = "off" /\ LinkState' = "linked" /\ LinkGrant' = LinkGrant
    BY <2>1 DEF LinkState, LinkGrant, Serving
  <2> QED  BY <2>1, <2>2 DEF Link!Connect, Link!Next
<1>3. CASE AckuseridOk
  BY <1>3, LinkGrants
<1>4. CASE CommandToDevice
  <2> DEFINE dev == Head(inbox).dev
  <2>1. UNCHANGED <<session, subOk, granted>>
    BY <1>4 DEF CommandToDevice
  <2>2. CASE sent' = sent
    BY <2>1, <2>2, LinkStutters
  <2>3. CASE sent' # sent
    <3>1. subOk /\ Head(inbox).type = "read"
      BY <1>4, <2>3 DEF CommandToDevice, outVars
    <3>2. PICK i \in AnsweringSlots(dev) : sent' = subDevs[i]
      BY <1>4, <3>1 DEF CommandToDevice
    <3>3. Serving /\ OfGrant(dev)
      BY <1>4, <3>1, CommandOfGrant
    <3>4. i \in Entries
      BY <3>2, <3>3, GrantFound, FoundFacts DEF AnsweringSlots
    <3> QED  BY <2>1, <3>2, <3>3, <3>4, LinkReports
  <2> QED  BY <2>2, <2>3
<1>5. CASE AppPublishes
  <2>1. PICK addr : subOk /\ SlotAt(addr) # 0 /\ session = "up" /\ sent' = subDevs[SlotAt(addr)]
    BY <1>5 DEF AppPublishes
  <2>2. SlotAt(addr) \in Entries /\ Serving
    BY <2>1, SlotAtFacts DEF Serving
  <2>3. UNCHANGED <<session, subOk, granted>>
    BY <1>5 DEF AppPublishes, programVars, cloudVars
  <2> QED  BY <2>1, <2>2, <2>3, LinkReports
<1>6. CASE AckuseridRedirect \/ ApExpires \/ ApUserSaves \/ SessionDrops
  <2>1. SessionEnds /\ UNCHANGED <<subOk, sent>>
    BY <1>6 DEF AckuseridRedirect, ReceiveAckuserid, ApExpires, ApUserSaves, SessionDrops, Reset, programVars, outVars
  <2> QED  BY <2>1, LinkBreaks
<1>7. CASE WifiClear \/ Update
  <2>1. UNCHANGED <<subOk, sent>>
    BY <1>7 DEF WifiClear, Update, outVars
  <2>2. SessionEnds \/ UNCHANGED <<session, granted>>
    BY <1>7 DEF WifiClear, Update, Reset
  <2> QED  BY <2>1, <2>2, LinkBreaks, LinkStutters
<1>8. CASE RunStart \/ WifiPoll \/ RunGoesOn \/ PollNothing \/ AckuseridMalformed \/ AckuseridOther \/ AppReturns
  <2>1. UNCHANGED <<session, subOk, granted, sent>>
    BY <1>8 DEF RunStart, WifiPoll, RunGoesOn, PollNothing, AckuseridMalformed, AckuseridOther, ReceiveAckuserid, AppReturns,
                cloudVars, outVars
  <2> QED  BY <2>1, LinkStutters
<1>9. CASE WifiJoins \/ WifiLost \/ CloudAnswers \/ CloudForgets \/ CloudCommands
  <2>1. UNCHANGED <<session, subOk, granted, sent>>
    BY <1>9 DEF WifiJoins, WifiLost, CloudAnswers, CloudForgets, CloudCommands, programVars,
                cloudVars, outVars
  <2> QED  BY <2>1, LinkStutters
<1>10. CASE Tick \/ CalmComes \/ UNCHANGED vars
  <2>1. UNCHANGED <<session, subOk, granted, sent>>
    BY <1>10 DEF Tick, CalmComes, vars, programVars, cloudVars, outVars
  <2> QED  BY <2>1, LinkStutters
<1> QED
  BY <1>1, <1>2, <1>3, <1>4, <1>5, <1>6, <1>7, <1>8, <1>9, <1>10 DEF Next

\* The gateway implements DeviceLink: it serves on a grant of the present
\* connection only and reports nothing but its sub-devices, if the cloud reads
\* no points of the gateway itself (such a read is answered out of what the
\* stack held).
THEOREM ImplementsLink == "read" \notin GatewayCommands => (Spec => LinkSpec)
<1> SUFFICES ASSUME "read" \notin GatewayCommands PROVE Spec => LinkSpec
  OBVIOUS
<1>1. Init => Link!Init
  BY DEF Init, Link!Init, LinkState, LinkGrant, Serving
<1>2. TypeOK /\ SessionInv /\ SessionInv' /\ [Next]_vars => [Link!Next]_(Link!vars)
  BY LinkStep
<1> QED  BY <1>1, <1>2, SessionInvariance, PTL DEF Spec, LinkSpec, Link!Spec

-----------------------------------------------------------------------------
(* What lasts. *)

\* A registered gateway in a calm world, with no order under way that makes it
\* reset.
Steady ==
    /\ calm /\ wifi /\ Serving
    /\ pc \notin {"boot", "ap"}
    /\ \A i \in DOMAIN inbox : inbox[i].type \notin {"wificlear", "update"}

\* A message taken is one that was there, and those left were, too.
LEMMA TakenFacts ==
    ASSUME TypeOK, inbox # <<>>
    PROVE  /\ 1 \in DOMAIN inbox /\ Head(inbox) = inbox[1]
           /\ \A i \in DOMAIN Tail(inbox) : i + 1 \in DOMAIN inbox /\ Tail(inbox)[i] = inbox[i + 1]
<1>1. inbox \in Seq(Messages) /\ Len(inbox) \in Nat \ {0}
  BY InboxFacts DEF TypeOK
<1> QED  BY <1>1

\* The messages after one more was sent.
LEMMA AppendedFacts ==
    ASSUME TypeOK, NEW msg, inbox' = Append(inbox, msg)
    PROVE  \A i \in DOMAIN inbox' : inbox'[i] = msg \/ (i \in DOMAIN inbox /\ inbox'[i] = inbox[i])
  BY DEF TypeOK

\* Nothing the program, the application, the clock or a calm cloud does ends a
\* steady service.
LEMMA SteadyStep ==
    ASSUME TypeOK, SessionInv, Steady, [Next]_vars
    PROVE  Steady'
<1> USE DEF Steady, Serving
<1>1. ~asked /\ \A i \in DOMAIN inbox : ~IsReply(inbox[i])
  BY DEF SessionInv, UpShape
<1>2. CASE RunStart \/ WifiPoll \/ RunGoesOn \/ PollNothing \/ AppReturns
  BY <1>2 DEF RunStart, WifiPoll, RunGoesOn, PollNothing, AppReturns, cloudVars, envVars
<1>3. CASE CommandToDevice
  <2>1. inbox # <<>> /\ inbox' = Tail(inbox) /\ pc' = "app" /\ UNCHANGED <<calm, wifi, session, subOk>>
    BY <1>3 DEF CommandToDevice, Receive, envVars
  <2> QED  BY <2>1, TakenFacts
<1>4. CASE AckuseridOk \/ AckuseridMalformed \/ AckuseridOther \/ AckuseridRedirect \/ WifiClear \/ Update
  <2>1. inbox # <<>> /\ Head(inbox).type \in {"ackuserid", "malformed", "wificlear", "update"}
    BY <1>4 DEF AckuseridOk, AckuseridMalformed, AckuseridOther, ReceiveAckuserid, AckuseridRedirect, WifiClear, Update, Receive
  <2> QED  BY <1>1, <2>1, TakenFacts DEF IsReply
<1>5. CASE AppPublishes \/ WifiJoins \/ Tick
  BY <1>5 DEF AppPublishes, WifiJoins, Tick, programVars, cloudVars, envVars
<1>6. CASE CloudCommands
  <2>1. PICK cmd : cmd.type \notin {"wificlear", "update"} /\ inbox' = Append(inbox, cmd)
    BY <1>6 DEF CloudCommands
  <2>2. UNCHANGED <<pc, calm, wifi, session, subOk>>
    BY <1>6 DEF CloudCommands, programVars, envVars
  <2> QED  BY <2>1, <2>2, AppendedFacts
<1>7. CASE UNCHANGED vars
  BY <1>7 DEF vars, programVars, cloudVars, envVars
<1>8. ~(Boot \/ RunConnects \/ RunFailsToConnect \/ ApExpires \/ ApUserSaves)
  BY DEF Boot, RunConnects, RunFailsToConnect, ApExpires, ApUserSaves
<1>9. ~(WifiLost \/ SessionDrops \/ CloudAnswers \/ CloudForgets \/ CalmComes)
  BY <1>1 DEF WifiLost, SessionDrops, CloudAnswers, CloudForgets, CalmComes
<1> QED  BY <1>2, <1>3, <1>4, <1>5, <1>6, <1>7, <1>8, <1>9 DEF Next

\* Once registered in a calm world a gateway serves for ever: gwRun(), the
\* commands and the application never give the registration up by themselves.
\* It is the half of EventuallyServes that is safety.
THEOREM ServiceLasts == Spec => [](Steady => []Serving)
<1>1. TypeOK /\ SessionInv /\ Steady /\ [Next]_vars => Steady'
  BY SteadyStep
<1>2. Steady => Serving
  BY DEF Steady
<1> QED  BY <1>1, <1>2, SessionInvariance, PTL DEF Spec

\* A missed registration is not caught up with in its session, whatever comes
\* afterwards: gwAckuseridRegist() is called once.
LEMMA MissedStep ==
    ASSUME TypeOK, Missed, [Next]_vars
    PROVE  Missed' \/ session' = "down"
<1> USE DEF Missed
<1>1. CASE Boot \/ RunStart \/ WifiPoll \/ RunGoesOn \/ PollNothing \/ AppReturns
  BY <1>1 DEF Boot, RunStart, WifiPoll, RunGoesOn, PollNothing, AppReturns, cloudVars
<1>2. CASE AckuseridMalformed \/ AckuseridOther \/ CommandToDevice
  <2>1. inbox # <<>> /\ inbox' = Tail(inbox) /\ UNCHANGED <<session, subOk, asked>>
    BY <1>2 DEF AckuseridMalformed, AckuseridOther, ReceiveAckuserid, CommandToDevice, Receive
  <2> QED  BY <2>1, TakenFacts
<1>3. CASE WifiClear \/ Update
  <2>1. CASE Reset
    BY <2>1 DEF Reset, SessionEnds
  <2>2. CASE ~Reset
    <3>1. inbox # <<>> /\ inbox' = Tail(inbox) /\ UNCHANGED <<session, subOk, asked>>
      BY <1>3, <2>2 DEF WifiClear, Update, Receive
    <3> QED  BY <3>1, TakenFacts
  <2> QED  BY <2>1, <2>2
<1>4. CASE AckuseridRedirect \/ ApExpires \/ ApUserSaves \/ SessionDrops
  BY <1>4 DEF AckuseridRedirect, ReceiveAckuserid, ApExpires, ApUserSaves, SessionDrops, Reset, SessionEnds
<1>5. CASE AppPublishes \/ WifiJoins \/ WifiLost \/ Tick \/ CalmComes
  BY <1>5 DEF AppPublishes, WifiJoins, WifiLost, Tick, CalmComes, programVars, cloudVars
<1>6. CASE CloudCommands
  <2>1. PICK cmd \in Commands : inbox' = Append(inbox, cmd)
    BY <1>6 DEF CloudCommands
  <2>2. cmd.type # "ackuserid"
    BY DEF Commands
  <2>3. UNCHANGED <<session, subOk, asked>>
    BY <1>6 DEF CloudCommands, programVars
  <2> QED  BY <2>1, <2>2, <2>3, AppendedFacts
<1>7. CASE UNCHANGED vars
  BY <1>7 DEF vars, programVars, cloudVars
<1>8. ~AckuseridOk
  <2> SUFFICES ASSUME AckuseridOk PROVE FALSE
    OBVIOUS
  <2>1. /\ 1 \in DOMAIN inbox /\ Head(inbox) = inbox[1]
        /\ Head(inbox).type = "ackuserid" /\ Head(inbox).cmd = "ok"
    BY CopyTypes DEF AckuseridOk
  <2> QED  BY <2>1
<1>9. ~(RunConnects \/ RunFailsToConnect \/ CloudAnswers \/ CloudForgets)
  BY DEF RunConnects, RunFailsToConnect, CloudAnswers, CloudForgets
<1> QED  BY <1>1, <1>2, <1>3, <1>4, <1>5, <1>6, <1>7, <1>8, <1>9 DEF Next

\* Only the end of its session frees a gateway that missed its registration:
\* the cause of what RegistrationCompletes is refuted by, for any constants.
THEOREM MissedForGood == Spec => [][Missed => Missed' \/ session' = "down"]_vars
<1>1. TypeOK /\ [Next]_vars => [Missed => Missed' \/ session' = "down"]_vars
  BY MissedStep
<1> QED  BY <1>1, SessionTypeCorrect, PTL DEF Spec
=============================================================================
