------------------------ MODULE SingleDevice_proofs ------------------------
(***************************************************************************)
(* Proofs about SingleDevice, for userids, fields and windows of any size: *)
(* the device is reachable under the userid it goes by, and that userid is *)
(* the granted one unless a longer one was granted before.                 *)
(***************************************************************************)
EXTENDS SingleDevice, CString_proofs, SequenceTheorems, TLAPS

Text == Seq(STRING)

-----------------------------------------------------------------------------
(* Texts in fields. *)

\* A userid is a text without Nul that fits its field.
LEMMA UseridFacts ==
    ASSUME NEW u \in Userids
    PROVE  /\ u \in Seq(Chars) /\ Len(u) \in 1..FieldSize
           /\ \A i \in 1..Len(u) : u[i] \in Chars /\ u[i] # Nul
<1>1. u \in Texts(Chars, FieldSize) /\ u # <<>>
  BY TextAssumption
<1>2. PICK k \in 0..FieldSize : u \in [1..k -> Chars]
  BY <1>1 DEF Texts
<1>3. k \in Nat /\ FieldSize \in Nat
  BY TextAssumption
<1>4. u \in Seq(Chars) /\ Len(u) = k
  BY <1>2, <1>3
<1>5. Len(u) # 0
  BY <1>1, <1>4
<1>6. \A i \in 1..Len(u) : u[i] \in Chars
  BY <1>2, <1>4
<1> QED  BY <1>3, <1>4, <1>5, <1>6, TextAssumption

Fields == [1..FieldSize -> Chars \cup {Nul}]

\* The text in a field whose first n cells hold characters, and no others.
LEMMA StrFacts ==
    ASSUME NEW field \in Fields, NEW n \in 0..FieldSize,
           \A i \in 1..FieldSize : field[i] # Nul <=> i <= n
    PROVE  /\ StrLen(field) = n
           /\ Str(field) = [i \in 1..n |-> field[i]]
           /\ Str(field) \in Seq(Chars) /\ Len(Str(field)) = n
<1> DEFINE Ends(m) == /\ \A i \in 1..m : field[i] # Nul
                      /\ m < Len(field) => field[m + 1] = Nul
<1>1. FieldSize \in Nat /\ n \in Nat /\ Len(field) = FieldSize
  BY TextAssumption DEF Fields
<1>2. n \in 0..Len(field) /\ Ends(n)
  BY <1>1
<1>3. \A m \in 0..Len(field) : Ends(m) => m = n
  BY <1>1
<1>4. StrLen(field) = n
  <2> HIDE DEF Ends
  <2>1. (CHOOSE m \in 0..Len(field) : Ends(m)) = n
    BY <1>2, <1>3
  <2> QED  BY <2>1, Zenon DEF StrLen, Ends
<1>5. Str(field) = [i \in 1..n |-> field[i]]
  BY <1>4 DEF Str
<1>6. \A i \in 1..n : field[i] \in Chars
  BY <1>1 DEF Fields
<1> QED  BY <1>1, <1>4, <1>5, <1>6

\* A text copied over a field.
LEMMA CopyFacts ==
    ASSUME NEW field \in Fields, NEW n \in 0..FieldSize, NEW u \in Userids,
           \A i \in 1..FieldSize : field[i] # Nul <=> i <= n
    PROVE  /\ StrNCpy(field, u) \in Fields
           /\ \A i \in 1..FieldSize :
                 StrNCpy(field, u)[i] # Nul <=> i <= (IF Len(u) > n THEN Len(u) ELSE n)
           /\ \A i \in 1..Len(u) : StrNCpy(field, u)[i] = u[i]
<1>1. FieldSize \in Nat /\ Len(field) = FieldSize
  BY TextAssumption DEF Fields
<1>2. StrNCpy(field, u) = [i \in 1..FieldSize |-> IF i <= Len(u) THEN u[i] ELSE field[i]]
  BY <1>1 DEF StrNCpy
<1>3. Len(u) \in 1..FieldSize /\ \A i \in 1..Len(u) : u[i] \in Chars /\ u[i] # Nul
  BY UseridFacts
<1> QED  BY <1>1, <1>2, <1>3 DEF Fields

-----------------------------------------------------------------------------
(* Acknowledgement data. *)

\* What the application hands back is decoded to what was encoded, whatever
\* follows it.
LEMMA AckDecoded ==
    ASSUME NEW src \in Text, NEW from \in Askers, NEW point \in Points, NEW rest \in Rests,
           src # <<>>
    PROVE  AckDecode(Followed(AckEncode(src, from, point), rest)) =
              [user |-> src, dev |-> from.dev, off |-> from.off, point |-> point, ep |-> from.ep]
<1> DEFINE pieces == AckEncode(src, from, point)
           whole == Followed(pieces, rest)
<1>1. /\ from.dev \in Text \ {<<>>} /\ from.off \in Text \ {<<>>} /\ from.ep \in Text
      /\ point \in Text /\ rest \in Seq(Text) /\ rest # <<>>
  BY TextAssumption DEF Text
<1>2. pieces \in Seq(Text) /\ Len(pieces) = 6
      /\ pieces[1] = src /\ pieces[2] = from.dev /\ pieces[3] = from.off
      /\ pieces[4] = point /\ pieces[5] = from.ep
  BY <1>1 DEF AckEncode, Text
<1>3. /\ SubSeq(pieces, 1, 5) \in Seq(Text) /\ Len(SubSeq(pieces, 1, 5)) = 5
      /\ \A i \in 1..5 : SubSeq(pieces, 1, 5)[i] = pieces[i]
  <2>1. \A i \in 1..5 : pieces[i] \in Text
    BY <1>1 DEF AckEncode
  <2> HIDE DEF pieces
  <2>2. /\ SubSeq(pieces, 1, 5) \in Seq(Text)
        /\ Len(SubSeq(pieces, 1, 5)) = IF 1 <= 5 THEN 5 - 1 + 1 ELSE 0
        /\ \A i \in 1..(5 - 1 + 1) : SubSeq(pieces, 1, 5)[i] = pieces[1 + i - 1]
    BY <2>1, SubSeqProperties
  <2>3. \A i \in 1..5 : 1 + i - 1 = i /\ i \in 1..(5 - 1 + 1)
    OBVIOUS
  <2>4. (IF 1 <= 5 THEN 5 - 1 + 1 ELSE 0) = 5
    OBVIOUS
  <2>5. \A i \in 1..5 : SubSeq(pieces, 1, 5)[i] = pieces[i]
    <3> SUFFICES ASSUME NEW i \in 1..5 PROVE SubSeq(pieces, 1, 5)[i] = pieces[i]
      OBVIOUS
    <3> QED  BY <2>2, <2>3, Zenon
  <2> QED  BY <2>2, <2>4, <2>5, Zenon
<1>4. PICK last \in Seq(Text) : Len(last) = 1 /\ last = <<pieces[6] \o Head(rest)>>
  <2>1. pieces[6] = <<>> /\ Head(rest) \in Text
    BY <1>1 DEF AckEncode
  <2> DEFINE joined == pieces[6] \o Head(rest)
  <2>2. joined \in Text
    BY <2>1 DEF Text
  <2> HIDE DEF joined
  <2>3. <<joined>> \in Seq(Text) /\ Len(<<joined>>) = 1
    BY <2>2
  <2> QED  BY <2>3 DEF joined
<1>5. Tail(rest) \in Seq(Text)
  BY <1>1
<1>6. whole = SubSeq(pieces, 1, 5) \o last \o Tail(rest)
  <2>1. Len(pieces) = 6 /\ 6 - 1 = 5
    BY <1>2
  <2> HIDE DEF pieces
  <2> QED  BY <1>4, <2>1, Zenon DEF Followed, whole
<1> HIDE DEF pieces, whole
<1>7. /\ Len(whole) >= 6
      /\ \A i \in 1..5 : whole[i] = pieces[i]
  BY <1>3, <1>4, <1>5, <1>6
<1>8. /\ Piece(whole, 1) = src /\ Piece(whole, 2) = from.dev /\ Piece(whole, 3) = from.off
      /\ Piece(whole, 4) = point /\ Piece(whole, 5) = from.ep
  <2>1. /\ whole[1] = src /\ whole[2] = from.dev /\ whole[3] = from.off
        /\ whole[4] = point /\ whole[5] = from.ep /\ \A i \in 1..5 : i < Len(whole)
    BY <1>2, <1>7
  <2>2. \A j \in 1..3 : whole[j] # <<>>
    BY <1>1, <2>1
  <2> QED  BY <2>1, <2>2 DEF Piece
<1> QED  BY <1>8 DEF AckDecode, whole, pieces

-----------------------------------------------------------------------------
(* Messages. *)

\* What the handlers find in a message of the kind they are for.
LEMMA MessageFacts ==
    ASSUME NEW m \in Messages
    PROVE  /\ TypeOf(m) = "ackuserid" /\ m.type = "ok" => m.user \in Userids
           /\ TypeOf(m) = "read" /\ m.type = "data" => m \in Reads /\ m.src # <<>>
           /\ TypeOf(m) # "none" => TypeOf(m) = m.cmd
           /\ m.cmd = "ackuserid" => TypeOf(m) = "ackuserid" /\ m.type \in {"ok", "redirect", "malformed"}
           /\ m.cmd # "ackuserid" => TypeOf(m) # "ackuserid"
<1>1. CASE m \in Replies
  BY <1>1 DEF Replies, TypeOf
<1>2. CASE m \in Reads
  BY <1>2 DEF Reads, TypeOf
<1>3. CASE m \in Writes
  BY <1>3 DEF Writes, TypeOf
<1>4. CASE m \in Functions
  BY <1>4 DEF Functions, TypeOf
<1> QED  BY <1>1, <1>2, <1>3, <1>4 DEF Messages, Commands

\* The inbox after a message more, and after its first was taken.
LEMMA InboxFacts ==
    ASSUME inbox \in Seq(Messages)
    PROVE  /\ \A m \in Messages : /\ Append(inbox, m) \in Seq(Messages)
                                  /\ Len(Append(inbox, m)) = Len(inbox) + 1
           /\ inbox # <<>> => /\ Head(inbox) \in Messages /\ Head(inbox) = inbox[1]
                              /\ Tail(inbox) \in Seq(Messages) /\ Len(Tail(inbox)) = Len(inbox) - 1
                              /\ \A i \in DOMAIN Tail(inbox) : Tail(inbox)[i] = inbox[i + 1]
  OBVIOUS

-----------------------------------------------------------------------------
(* Types, by what the actions leave alone together. *)

Places == {"boot", "run", "wifi", "check", "poll", "handle", "subread", "subwrite",
           "ack", "update", "app", "apstart", "ap", "client"}

\* The counts and clocks of sdRun() and the sketch.
RamTypes ==
    /\ polls \in 0..WifiPolls /\ longest \in 0..FieldSize
    /\ remoteAge \in -1..(RemoteWindow + 1) /\ sendAge \in -1..(SendWindow + 1)
    /\ pc \in Places /\ (pc = "wifi" => polls < WifiPolls)

\* The field holds as many characters as the longest userid, and nothing else.
FieldInv ==
    /\ userid \in Fields
    /\ \A i \in 1..FieldSize : userid[i] # Nul <=> i <= longest

BitTypes == subOk \in BOOLEAN /\ wifi \in BOOLEAN /\ configured \in BOOLEAN /\ calm \in BOOLEAN

PacketTypes == packet \in Messages \cup {None} /\ (pc = "handle" => packet \in Messages)

ApTypes == apAge \in 0..(ApLongWindow + 1) /\ isLoop \in BOOLEAN /\ resetflag \in 0..3

CloudTypes ==
    /\ session \in {"up", "down"} /\ asked \in BOOLEAN
    /\ inbox \in Seq(Messages) /\ Len(inbox) <= InboxSize
    /\ granted \in Userids \cup {None}
    /\ session = "down" => subs = {} /\ asked = FALSE /\ inbox = <<>>

\* What the callback of a read got.
Called ==
    pc = "ack" =>
        \E msg \in Reads, f \in Leftovers, r \in Rests : msg.src # <<>> /\ called = ReadCall(msg, f, r)

Types == RamTypes /\ FieldInv /\ BitTypes /\ PacketTypes /\ ApTypes /\ CloudTypes /\ Called

LEMMA InitDeviceTypes == Init => Types
<1> SUFFICES ASSUME Init PROVE Types
  OBVIOUS
<1>1. RamTypes
  BY TextAssumption, WindowAssumption DEF Init, RamTypes, Places
<1>2. FieldInv
  BY TextAssumption DEF Init, FieldInv, Zeros, Fields
<1>3. BitTypes
  BY Zenon DEF Init, BitTypes
<1>4. PacketTypes /\ Called
  BY DEF Init, PacketTypes, Called
<1>5. ApTypes
  <2>1. apAge \in 0..(ApLongWindow + 1) /\ resetflag \in 0..3
    BY WindowAssumption DEF Init
  <2> QED  BY <2>1, Zenon DEF Init, ApTypes
<1>6. CloudTypes
  <2>1. inbox \in Seq(Messages) /\ Len(inbox) <= InboxSize
    BY InboxAssumption DEF Init
  <2> QED  BY <2>1, Zenon DEF Init, CloudTypes
<1> QED  BY <1>1, <1>2, <1>3, <1>4, <1>5, <1>6 DEF Types

\* An older clock stays in its range.
LEMMA OlderFacts ==
    ASSUME NEW w \in Nat
    PROVE  /\ \A age \in -1..(w + 1) : Older(age, w) \in -1..(w + 1)
           /\ \A age \in 0..(w + 1) : Older(age, w) \in 0..(w + 1)
  BY DEF Older

\* The steps that leave the counts, the field and the registration alone.
LEMMA RamKeepers ==
    ASSUME [Next]_vars, ~Boot, ~RunStart, ~WifiPoll, ~RunConnects, ~RunFailsToConnect,
           ~AckuseridOk, ~AppReports, ~AppWaits, ~Tick
    PROVE  UNCHANGED ramVars
<1>1. CASE RunGoesOn \/ PollNothing \/ Receive \/ SubscribeRead \/ SubscribeWrite
  BY <1>1 DEF RunGoesOn, PollNothing, Receive, SubscribeRead, SubscribeWrite
<1>2. CASE AckuseridRedirect \/ Ignored \/ ReadCommand \/ Ack \/ WriteCommand
  BY <1>2 DEF AckuseridRedirect, Ignored, ReadCommand, Ack, WriteCommand, Reset
<1>3. CASE Restart \/ WifiClear \/ Update \/ UpdateFails \/ UpdateEnds \/ UpdateReports
  BY <1>3 DEF Restart, WifiClear, Update, UpdateFails, UpdateEnds, UpdateReports, Reset
<1>4. CASE ApStarts \/ ApWindowOver \/ ApAccepts \/ ApForm \/ ApAbandon \/ ApClientDone
  BY <1>4 DEF ApStarts, ApWindowOver, ApAccepts, ApForm, ApAbandon, ApClientDone, Reset
<1>5. CASE WifiJoins \/ WifiLost \/ SessionDrops \/ CloudAnswers \/ CloudCommands \/ CalmComes
           \/ UNCHANGED vars
  BY <1>5 DEF WifiJoins, WifiLost, SessionDrops, CloudAnswers, CloudCommands, CalmComes, vars
<1> QED  BY <1>1, <1>2, <1>3, <1>4, <1>5 DEF Next, Program

\* Where such a step leads.
LEMMA PlacesKept ==
    ASSUME pc \in Places, [Next]_vars, ~Boot, ~RunStart, ~WifiPoll, ~RunConnects,
           ~RunFailsToConnect, ~AckuseridOk, ~AppReports, ~AppWaits, ~Tick
    PROVE  pc' \in Places /\ (pc' = "wifi" => pc = "wifi")
<1>1. CASE RunGoesOn \/ PollNothing \/ Receive \/ SubscribeRead \/ SubscribeWrite
  BY <1>1 DEF RunGoesOn, PollNothing, Receive, SubscribeRead, SubscribeWrite, Places
<1>2. CASE AckuseridRedirect \/ Ignored \/ ReadCommand \/ Ack \/ WriteCommand
  BY <1>2 DEF AckuseridRedirect, Ignored, ReadCommand, Ack, WriteCommand, Reset, Places
<1>3. CASE Restart \/ WifiClear \/ Update \/ UpdateFails \/ UpdateEnds \/ UpdateReports
  BY <1>3 DEF Restart, WifiClear, Update, UpdateFails, UpdateEnds, UpdateReports, Reset, Places
<1>4. CASE ApStarts \/ ApWindowOver \/ ApAccepts \/ ApForm \/ ApAbandon \/ ApClientDone
  BY <1>4 DEF ApStarts, ApWindowOver, ApAccepts, ApForm, ApAbandon, ApClientDone, Reset, Places
<1>5. CASE WifiJoins \/ WifiLost \/ SessionDrops \/ CloudAnswers \/ CloudCommands \/ CalmComes
           \/ UNCHANGED vars
  BY <1>5 DEF WifiJoins, WifiLost, SessionDrops, CloudAnswers, CloudCommands, CalmComes, vars
<1> QED  BY <1>1, <1>2, <1>3, <1>4, <1>5 DEF Next, Program

\* The counts, the clocks and the field.
LEMMA RamStep ==
    ASSUME Types, [Next]_vars
    PROVE  RamTypes' /\ FieldInv'
<1>0. RamTypes /\ FieldInv
  BY DEF Types
<1>1. CASE Boot
  <2>1. FieldInv'
    BY <1>1, TextAssumption DEF Boot, FieldInv, Zeros, Fields
  <2>2. RamTypes'
    BY <1>1, TextAssumption, WindowAssumption DEF Boot, RamTypes, Places
  <2> QED  BY <2>1, <2>2
<1>2. CASE RunStart \/ WifiPoll \/ RunConnects \/ RunFailsToConnect
  <2>1. UNCHANGED <<userid, longest>>
    BY <1>2 DEF RunStart, WifiPoll, RunConnects, RunFailsToConnect
  <2>2. FieldInv'
    BY <1>0, <2>1 DEF FieldInv
  <2>3. RamTypes'
    BY <1>0, <1>2, WindowAssumption
       DEF RamTypes, RunStart, WifiPoll, LastPoll, RunConnects, RunFailsToConnect, Places
  <2> QED  BY <2>2, <2>3
<1>3. CASE AckuseridOk
  <2>1. packet.user \in Userids
    BY <1>3, MessageFacts DEF AckuseridOk, Handles, Types, PacketTypes
  <2>2. longest \in 0..FieldSize /\ Len(packet.user) \in 1..FieldSize
    BY <1>0, <2>1, UseridFacts DEF RamTypes
  <2>3. /\ userid' = StrNCpy(userid, packet.user) /\ pc' = "subread"
        /\ longest' = IF Len(packet.user) > longest THEN Len(packet.user) ELSE longest
        /\ UNCHANGED <<polls, remoteAge, sendAge>>
    BY <1>3 DEF AckuseridOk, UseridCopy
  <2>4. FieldInv'
    BY <1>0, <2>1, <2>2, <2>3, CopyFacts DEF FieldInv
  <2>5. RamTypes'
    BY <1>0, <2>2, <2>3 DEF RamTypes, Places
  <2> QED  BY <2>4, <2>5
<1>4. CASE AppReports \/ AppWaits
  <2>1. UNCHANGED <<userid, longest, polls, remoteAge>> /\ pc' = "run"
        /\ sendAge' \in {-1, 0, sendAge}
    BY <1>4 DEF AppReports, AppWaits
  <2> QED  BY <1>0, <2>1, WindowAssumption DEF RamTypes, FieldInv, Places
<1>5. CASE Tick
  <2>1. UNCHANGED <<userid, longest, polls, pc>>
        /\ remoteAge' = Older(remoteAge, RemoteWindow) /\ sendAge' = Older(sendAge, SendWindow)
    BY <1>5 DEF Tick
  <2> QED  BY <1>0, <2>1, OlderFacts, WindowAssumption DEF RamTypes, FieldInv
<1>6. CASE ~(Boot \/ RunStart \/ WifiPoll \/ RunConnects \/ RunFailsToConnect
             \/ AckuseridOk \/ AppReports \/ AppWaits \/ Tick)
  <2>1. UNCHANGED ramVars
    BY <1>6, RamKeepers
  <2>2. pc' \in Places /\ (pc' = "wifi" => pc = "wifi")
    BY <1>0, <1>6, PlacesKept DEF RamTypes
  <2> QED  BY <1>0, <2>1, <2>2 DEF RamTypes, FieldInv, ramVars
<1> QED  BY <1>1, <1>2, <1>3, <1>4, <1>5, <1>6

\* The answers, the configuration and the registration are on or off.
LEMMA BitStep ==
    ASSUME BitTypes, [Next]_vars
    PROVE  BitTypes'
<1>1. CASE Boot \/ RunStart \/ WifiPoll \/ RunGoesOn \/ RunConnects \/ RunFailsToConnect
  <2>1. UNCHANGED envVars
    BY <1>1, Zenon DEF Boot, RunStart, WifiPoll, RunGoesOn, RunConnects, RunFailsToConnect
  <2>2. subOk' = FALSE \/ subOk' = subOk
    BY <1>1, Zenon DEF Boot, RunStart, WifiPoll, RunGoesOn, RunConnects, RunFailsToConnect,
                       SubOkOnReconnect, ramVars
  <2> QED  BY <2>1, <2>2, Zenon DEF BitTypes, envVars
<1>2. CASE PollNothing \/ Receive \/ AckuseridOk \/ SubscribeRead \/ SubscribeWrite
  BY <1>2, Zenon DEF BitTypes, PollNothing, Receive, AckuseridOk, SubscribeRead, SubscribeWrite,
                     ramVars, envVars
<1>3. CASE AckuseridRedirect \/ Ignored \/ ReadCommand \/ Ack \/ WriteCommand
  BY <1>3, Zenon DEF BitTypes, AckuseridRedirect, Ignored, ReadCommand, Ack, WriteCommand, Reset,
                     ramVars, envVars
<1>4. CASE Restart \/ WifiClear \/ Update \/ UpdateFails \/ UpdateEnds \/ UpdateReports
  BY <1>4, Zenon DEF BitTypes, Restart, WifiClear, Update, UpdateFails, UpdateEnds, UpdateReports,
                     Reset, ramVars, envVars
<1>5. CASE AppReports \/ AppWaits \/ ApStarts \/ ApWindowOver \/ ApAccepts \/ ApAbandon
           \/ ApClientDone
  BY <1>5, Zenon DEF BitTypes, AppReports, AppWaits, ApStarts, ApWindowOver, ApAccepts, ApAbandon,
                     ApClientDone, Reset, ramVars, envVars
<1>6. CASE ApForm
  <2>1. configured' \in BOOLEAN
    BY <1>6, Zenon DEF ApForm
  <2> QED  BY <1>6, <2>1, Zenon DEF BitTypes, ApForm, ramVars
<1>7. CASE WifiJoins \/ WifiLost \/ SessionDrops \/ CloudAnswers \/ CloudCommands \/ Tick \/ CalmComes
           \/ UNCHANGED vars
  BY <1>7, Zenon DEF BitTypes, WifiJoins, WifiLost, SessionDrops, CloudAnswers, CloudCommands, Tick,
                     CalmComes, ramVars, envVars, vars
<1> QED  BY <1>1, <1>2, <1>3, <1>4, <1>5, <1>6, <1>7 DEF Next, Program

\* The packet buffer.
LEMMA PacketStep ==
    ASSUME Types, [Next]_vars
    PROVE  PacketTypes'
<1>0. packet \in Messages \cup {None} /\ (pc = "handle" => packet \in Messages) /\ inbox \in Seq(Messages)
  BY DEF Types, PacketTypes, CloudTypes
<1>1. CASE Boot \/ RunStart \/ WifiPoll \/ RunGoesOn \/ RunConnects \/ RunFailsToConnect
  BY <1>0, <1>1 DEF PacketTypes, Boot, RunStart, WifiPoll, RunGoesOn, RunConnects, RunFailsToConnect
<1>2. CASE PollNothing \/ AckuseridOk \/ SubscribeRead \/ SubscribeWrite
  BY <1>0, <1>2 DEF PacketTypes, PollNothing, AckuseridOk, SubscribeRead, SubscribeWrite,
                    PacketAfterSend
<1>3. CASE Receive
  BY <1>0, <1>3, InboxFacts DEF PacketTypes, Receive
<1>4. CASE AckuseridRedirect \/ Ignored \/ ReadCommand \/ Ack \/ WriteCommand
  BY <1>0, <1>4 DEF PacketTypes, AckuseridRedirect, Ignored, ReadCommand, Ack, WriteCommand, Reset
<1>5. CASE Restart \/ WifiClear \/ Update \/ UpdateFails \/ UpdateEnds
  BY <1>0, <1>5 DEF PacketTypes, Restart, WifiClear, Update, UpdateFails, UpdateEnds, Reset
<1>6. CASE UpdateReports \/ AppReports \/ AppWaits
  BY <1>0, <1>6 DEF PacketTypes, UpdateReports, AppReports, AppWaits, Report, PacketAfterSend
<1>7. CASE ApStarts \/ ApWindowOver \/ ApAccepts \/ ApForm \/ ApAbandon \/ ApClientDone
  BY <1>0, <1>7 DEF PacketTypes, ApStarts, ApWindowOver, ApAccepts, ApForm, ApAbandon, ApClientDone, Reset
<1>8. CASE WifiJoins \/ WifiLost \/ SessionDrops \/ CloudAnswers \/ CloudCommands \/ Tick \/ CalmComes
           \/ UNCHANGED vars
  BY <1>0, <1>8 DEF PacketTypes, WifiJoins, WifiLost, SessionDrops, CloudAnswers, CloudCommands, Tick,
                    CalmComes, vars
<1> QED  BY <1>1, <1>2, <1>3, <1>4, <1>5, <1>6, <1>7, <1>8 DEF Next, Program

\* The variables of AP mode.
LEMMA ApStep ==
    ASSUME ApTypes, [Next]_vars
    PROVE  ApTypes'
<1>1. CASE Boot \/ ApStarts
  <2>1. apAge' \in 0..(ApLongWindow + 1) /\ resetflag' \in 0..3
    BY <1>1, WindowAssumption DEF Boot, ApStarts
  <2> QED  BY <1>1, <2>1, Zenon DEF Boot, ApStarts, ApTypes
<1>2. CASE ApAccepts \/ ApForm \/ ApAbandon
  <2>1. resetflag' \in 0..3 /\ UNCHANGED <<apAge, isLoop>>
    BY <1>2 DEF ApAccepts, ApForm, ApAbandon
  <2> QED  BY <2>1 DEF ApTypes
<1>3. CASE ApClientDone
  <2>1. UNCHANGED <<apAge, resetflag>> /\ isLoop' \in {isLoop, TRUE}
    BY <1>3 DEF ApClientDone, Reset, apVars
  <2> QED  BY <2>1, Zenon DEF ApTypes
<1>4. CASE Tick
  <2>1. apAge' \in {apAge, Older(apAge, ApLongWindow)} /\ UNCHANGED <<isLoop, resetflag>>
    BY <1>4 DEF Tick
  <2>2. apAge' \in 0..(ApLongWindow + 1)
    BY <2>1, OlderFacts, WindowAssumption DEF ApTypes
  <2> QED  BY <2>1, <2>2, Zenon DEF ApTypes
<1>5. CASE ~(Boot \/ ApStarts \/ ApAccepts \/ ApForm \/ ApAbandon \/ ApClientDone \/ Tick)
  <2>1. UNCHANGED apVars
    <3>1. CASE RunStart \/ WifiPoll \/ RunGoesOn \/ RunConnects \/ RunFailsToConnect
      BY <3>1 DEF RunStart, WifiPoll, RunGoesOn, RunConnects, RunFailsToConnect
    <3>2. CASE PollNothing \/ Receive \/ AckuseridOk \/ SubscribeRead \/ SubscribeWrite
      BY <3>2 DEF PollNothing, Receive, AckuseridOk, SubscribeRead, SubscribeWrite
    <3>3. CASE AckuseridRedirect \/ Ignored \/ ReadCommand \/ Ack \/ WriteCommand
      BY <3>3 DEF AckuseridRedirect, Ignored, ReadCommand, Ack, WriteCommand, Reset
    <3>4. CASE Restart \/ WifiClear \/ Update \/ UpdateFails \/ UpdateEnds \/ UpdateReports
      BY <3>4 DEF Restart, WifiClear, Update, UpdateFails, UpdateEnds, UpdateReports, Reset
    <3>5. CASE AppReports \/ AppWaits \/ ApWindowOver
      BY <3>5 DEF AppReports, AppWaits, ApWindowOver, Reset
    <3>6. CASE WifiJoins \/ WifiLost \/ SessionDrops \/ CloudAnswers \/ CloudCommands \/ CalmComes
               \/ UNCHANGED vars
      BY <3>6 DEF WifiJoins, WifiLost, SessionDrops, CloudAnswers, CloudCommands, CalmComes, vars
    <3> QED  BY <1>5, <3>1, <3>2, <3>3, <3>4, <3>5, <3>6 DEF Next, Program
  <2> QED  BY <2>1 DEF ApTypes, apVars
<1> QED  BY <1>1, <1>2, <1>3, <1>4, <1>5

\* Only a read leads to its acknowledgement, and nothing comes in between.
LEMMA CalledStep ==
    ASSUME Types, [Next]_vars
    PROVE  Called'
<1>1. CASE ReadCommand
  <2>1. packet \in Reads /\ packet.src # <<>>
    BY <1>1, MessageFacts DEF ReadCommand, Handles, Types, PacketTypes
  <2>2. PICK f \in Leftovers, r \in Rests : called' = ReadCall(packet, f, r)
    BY <1>1 DEF ReadCommand
  <2> QED  BY <2>1, <2>2, Zenon DEF Called
<1>2. CASE pc' # "ack"
  BY <1>2 DEF Called
<1>3. CASE pc' = "ack" /\ ~ReadCommand
  <2>1. pc = "ack" /\ called' = called
    <3>1. CASE Boot \/ RunStart \/ WifiPoll \/ RunGoesOn \/ RunConnects \/ RunFailsToConnect
      BY <1>3, <3>1 DEF Boot, RunStart, WifiPoll, RunGoesOn, RunConnects, RunFailsToConnect
    <3>2. CASE PollNothing \/ Receive \/ AckuseridOk \/ SubscribeRead \/ SubscribeWrite
      BY <1>3, <3>2 DEF PollNothing, Receive, AckuseridOk, SubscribeRead, SubscribeWrite
    <3>3. CASE AckuseridRedirect \/ Ignored \/ Ack \/ WriteCommand
      BY <1>3, <3>3 DEF AckuseridRedirect, Ignored, Ack, WriteCommand, Reset
    <3>4. CASE Restart \/ WifiClear \/ Update \/ UpdateFails \/ UpdateEnds \/ UpdateReports
      BY <1>3, <3>4 DEF Restart, WifiClear, Update, UpdateFails, UpdateEnds, UpdateReports, Reset
    <3>5. CASE AppReports \/ AppWaits \/ ApStarts \/ ApWindowOver \/ ApAccepts
      BY <1>3, <3>5 DEF AppReports, AppWaits, ApStarts, ApWindowOver, ApAccepts, Reset
    <3>6. CASE ApForm \/ ApAbandon \/ ApClientDone
      BY <1>3, <3>6 DEF ApForm, ApAbandon, ApClientDone, Reset
    <3>7. CASE WifiJoins \/ WifiLost \/ SessionDrops \/ CloudAnswers \/ CloudCommands \/ Tick \/ CalmComes
               \/ UNCHANGED vars
      BY <1>3, <3>7 DEF WifiJoins, WifiLost, SessionDrops, CloudAnswers, CloudCommands, Tick, CalmComes,
                        vars, outVars
    <3> QED  BY <1>3, <3>1, <3>2, <3>3, <3>4, <3>5, <3>6, <3>7 DEF Next, Program
  <2> QED  BY <2>1 DEF Types, Called
<1> QED  BY <1>1, <1>2, <1>3

\* A session that ends leaves nothing.
LEMMA EndsTypes == SessionEnds => CloudTypes'
<1> SUFFICES ASSUME SessionEnds PROVE CloudTypes'
  OBVIOUS
<1>1. inbox' = <<>> /\ inbox' \in Seq(Messages) /\ Len(inbox') <= InboxSize
  BY InboxAssumption DEF SessionEnds
<1>2. granted' = None /\ session' = "down" /\ subs' = {} /\ asked' = FALSE
  BY DEF SessionEnds
<1> QED  BY <1>1, <1>2, Zenon DEF CloudTypes

\* What the cloud and the device have of each other.
LEMMA CloudStep ==
    ASSUME Types, [Next]_vars
    PROVE  CloudTypes'
<1>0. CloudTypes
  BY DEF Types
<1>1. CASE Boot \/ RunStart \/ WifiPoll \/ RunGoesOn \/ RunFailsToConnect \/ PollNothing
  <2>1. UNCHANGED cloudVars
    BY <1>1 DEF Boot, RunStart, WifiPoll, RunGoesOn, RunFailsToConnect, PollNothing
  <2> QED  BY <1>0, <2>1 DEF CloudTypes, cloudVars
<1>2. CASE RunConnects
  <2>1. session' = "up" /\ asked' = TRUE /\ granted' = None /\ inbox' = inbox
    BY <1>2 DEF RunConnects
  <2> QED  BY <1>0, <2>1, Zenon DEF CloudTypes
<1>3. CASE Receive
  <2>1. inbox' \in Seq(Messages) /\ Len(inbox') <= InboxSize /\ inbox # <<>>
    BY <1>0, <1>3, InboxFacts, InboxAssumption DEF Receive, CloudTypes
  <2>2. UNCHANGED <<session, subs, asked, granted>>
    BY <1>3 DEF Receive
  <2> QED  BY <1>0, <2>1, <2>2, Zenon DEF CloudTypes
<1>4. CASE AckuseridOk
  <2>1. packet.user \in Userids
    BY <1>4, MessageFacts DEF AckuseridOk, Handles, Types, PacketTypes
  <2>2. granted' = packet.user /\ UNCHANGED <<session, subs, asked, inbox>>
    BY <1>4 DEF AckuseridOk
  <2> QED  BY <1>0, <2>1, <2>2, Zenon DEF CloudTypes
<1>5. CASE SubscribeRead \/ SubscribeWrite
  <2>1. UNCHANGED <<session, asked, inbox, granted>> /\ (session = "down" => subs' = subs)
    BY <1>5 DEF SubscribeRead, SubscribeWrite
  <2> QED  BY <1>0, <2>1, Zenon DEF CloudTypes
<1>6. CASE AckuseridRedirect \/ Restart \/ WifiClear \/ UpdateEnds \/ ApStarts \/ ApWindowOver
           \/ SessionDrops
  BY <1>6, EndsTypes DEF AckuseridRedirect, Restart, WifiClear, UpdateEnds, ApStarts, ApWindowOver,
                         SessionDrops, Reset
<1>7. CASE ApClientDone
  <2>1. SessionEnds \/ UNCHANGED cloudVars
    BY <1>7 DEF ApClientDone, Reset
  <2> QED  BY <1>0, <2>1, EndsTypes DEF CloudTypes, cloudVars
<1>8. CASE Ignored \/ ReadCommand \/ Ack \/ WriteCommand \/ Update \/ UpdateFails \/ UpdateReports
  <2>1. UNCHANGED cloudVars
    BY <1>8 DEF Ignored, ReadCommand, Ack, WriteCommand, Update, UpdateFails, UpdateReports
  <2> QED  BY <1>0, <2>1 DEF CloudTypes, cloudVars
<1>9. CASE AppReports \/ AppWaits \/ ApAccepts \/ ApForm \/ ApAbandon
  <2>1. UNCHANGED cloudVars
    BY <1>9 DEF AppReports, AppWaits, ApAccepts, ApForm, ApAbandon
  <2> QED  BY <1>0, <2>1 DEF CloudTypes, cloudVars
<1>10. CASE WifiJoins \/ WifiLost \/ Tick \/ CalmComes \/ UNCHANGED vars
  <2>1. UNCHANGED cloudVars
    BY <1>10 DEF WifiJoins, WifiLost, Tick, CalmComes, vars
  <2> QED  BY <1>0, <2>1 DEF CloudTypes, cloudVars
<1>11. CASE CloudAnswers \/ CloudCommands
  <2>1. PICK m \in Messages : inbox' = Append(inbox, m)
    BY <1>11 DEF CloudAnswers, CloudCommands, Messages
  <2>2. inbox' \in Seq(Messages) /\ Len(inbox') = Len(inbox) + 1 /\ Len(inbox) < InboxSize
        /\ Len(inbox) \in Nat
    BY <1>0, <1>11, <2>1, InboxFacts DEF CloudAnswers, CloudCommands, CloudTypes
  <2>3. Len(inbox') <= InboxSize
    BY <2>2, InboxAssumption
  <2>4. UNCHANGED <<session, subs, granted>> /\ (asked' = FALSE \/ asked' = asked) /\ subs # {}
    BY <1>11 DEF CloudAnswers, CloudCommands
  <2> QED  BY <1>0, <2>2, <2>3, <2>4, Zenon DEF CloudTypes
<1> QED
  BY <1>1, <1>2, <1>3, <1>4, <1>5, <1>6, <1>7, <1>8, <1>9, <1>10, <1>11 DEF Next, Program

LEMMA DeviceTypesStep == Types /\ [Next]_vars => Types'
<1> SUFFICES ASSUME Types, [Next]_vars PROVE Types'
  OBVIOUS
<1>1. BitTypes' /\ ApTypes'
  BY BitStep, ApStep DEF Types
<1> QED  BY <1>1, RamStep, PacketStep, CalledStep, CloudStep DEF Types

\* Types, the shape of the field and what a callback was given hold in every
\* reachable state.
THEOREM DeviceTypes == Spec => []Types
<1> QED  BY InitDeviceTypes, DeviceTypesStep, PTL DEF Spec

\* The steps that print no topic.
LEMMA OverrunKept ==
    ASSUME [Next]_vars, ~RunConnects, ~SubscribeRead, ~SubscribeWrite, ~ReadCommand, ~Ack,
           ~UpdateReports, ~AppReports
    PROVE  UNCHANGED overrun
<1>1. CASE Boot \/ RunStart \/ WifiPoll \/ RunGoesOn \/ RunFailsToConnect \/ PollNothing \/ Receive
  BY <1>1 DEF Boot, RunStart, WifiPoll, RunGoesOn, RunFailsToConnect, PollNothing, Receive, outVars
<1>2. CASE AckuseridOk \/ AckuseridRedirect \/ Ignored \/ WriteCommand
  BY <1>2 DEF AckuseridOk, AckuseridRedirect, Ignored, WriteCommand, Reset, outVars
<1>3. CASE Restart \/ WifiClear \/ Update \/ UpdateFails \/ UpdateEnds
  BY <1>3 DEF Restart, WifiClear, Update, UpdateFails, UpdateEnds, Reset, outVars
<1>4. CASE AppWaits \/ ApStarts \/ ApWindowOver \/ ApAccepts \/ ApForm \/ ApAbandon \/ ApClientDone
  BY <1>4 DEF AppWaits, ApStarts, ApWindowOver, ApAccepts, ApForm, ApAbandon, ApClientDone, Reset, outVars
<1>5. CASE WifiJoins \/ WifiLost \/ SessionDrops \/ CloudAnswers \/ CloudCommands \/ Tick \/ CalmComes
           \/ UNCHANGED vars
  BY <1>5 DEF WifiJoins, WifiLost, SessionDrops, CloudAnswers, CloudCommands, Tick, CalmComes, outVars, vars
<1> QED  BY <1>1, <1>2, <1>3, <1>4, <1>5 DEF Next, Program

\* Every topic printed is of a kind that has a buffer.
OverrunTypes == overrun \subseteq DOMAIN Room

LEMMA OverrunStep ==
    ASSUME OverrunTypes, [Next]_vars
    PROVE  OverrunTypes'
<1>1. DOMAIN Room = {"ackuserid", "register", "read", "write", "valuechange", "ack", "updatestate", "devack"}
  BY DEF Room
<1>2. CASE RunConnects
  BY <1>1, <1>2 DEF RunConnects, RegisterPrints, OverrunTypes
<1>3. CASE SubscribeRead \/ SubscribeWrite \/ ReadCommand \/ Ack
  BY <1>1, <1>3 DEF SubscribeRead, SubscribeWrite, ReadCommand, Ack, Prints, OverrunTypes
<1>4. CASE UpdateReports \/ AppReports
  BY <1>1, <1>4 DEF UpdateReports, AppReports, Report, Prints, OverrunTypes
<1>5. CASE UNCHANGED overrun
  BY <1>5 DEF OverrunTypes
<1> QED  BY <1>2, <1>3, <1>4, <1>5, OverrunKept

\* Types and ranges, for texts of any length.
THEOREM DeviceTypeCorrect == Spec => []TypeOK
<1>1. Init => OverrunTypes
  BY DEF Init, OverrunTypes
<1>2. Types /\ OverrunTypes => TypeOK
  BY Zenon DEF Types, RamTypes, FieldInv, Fields, BitTypes, PacketTypes, ApTypes, CloudTypes, Places,
              OverrunTypes, TypeOK
<1> QED  BY <1>1, <1>2, OverrunStep, DeviceTypes, PTL DEF Spec

-----------------------------------------------------------------------------
(* The session. *)

Topics == {<<Str(userid), "read">>, <<Str(userid), "write">>}

\* What is subscribed while the handler is at it, and from then on.
Reach ==
    Serving => /\ pc = "subwrite" => <<Str(userid), "read">> \in subs
               /\ pc \notin {"subread", "subwrite"} => Topics \subseteq subs

\* The field begins with the userid granted.
GrantInv ==
    Serving => /\ granted \in Userids /\ Len(granted) <= longest
               /\ \A i \in 1..Len(granted) : userid[i] = granted[i]

\* The steps that neither begin nor register a session end it or leave it as
\* it is.
LEMMA SessionKept ==
    ASSUME [Next]_vars, ~Boot, ~RunConnects, ~RunFailsToConnect, ~AckuseridOk, ~SubscribeRead,
           ~SubscribeWrite
    PROVE  \/ SessionEnds
           \/ /\ UNCHANGED <<session, subOk, userid, subs, granted, longest>>
              /\ pc' = pc \/ (pc' \notin {"subread", "subwrite"} /\ pc \notin {"subread", "subwrite"})
<1>1. CASE RunStart \/ WifiPoll \/ RunGoesOn \/ PollNothing \/ Receive
  BY <1>1 DEF RunStart, WifiPoll, RunGoesOn, PollNothing, Receive, ramVars, cloudVars
<1>2. CASE AckuseridRedirect \/ Restart \/ WifiClear \/ UpdateEnds \/ ApStarts \/ ApWindowOver
           \/ SessionDrops
  BY <1>2 DEF AckuseridRedirect, Restart, WifiClear, UpdateEnds, ApStarts, ApWindowOver, SessionDrops,
              Reset
<1>3. CASE Ignored \/ ReadCommand \/ Ack \/ WriteCommand \/ Update
  BY <1>3 DEF Ignored, ReadCommand, Ack, WriteCommand, Update, Handles, ramVars, cloudVars
<1>4. CASE UpdateFails \/ UpdateReports \/ AppReports \/ AppWaits
  BY <1>4 DEF UpdateFails, UpdateReports, AppReports, AppWaits, ramVars, cloudVars
<1>5. CASE ApAccepts \/ ApForm \/ ApAbandon \/ ApClientDone
  BY <1>5 DEF ApAccepts, ApForm, ApAbandon, ApClientDone, Reset, ramVars, cloudVars
<1>6. CASE WifiJoins \/ WifiLost \/ CloudAnswers \/ CloudCommands \/ Tick \/ CalmComes
           \/ UNCHANGED vars
  BY <1>6 DEF WifiJoins, WifiLost, CloudAnswers, CloudCommands, Tick, CalmComes, vars, ramVars, cloudVars
<1> QED  BY <1>1, <1>2, <1>3, <1>4, <1>5, <1>6 DEF Next, Program

LEMMA ReachStep ==
    ASSUME Types, Reach, GrantInv, [Next]_vars
    PROVE  Reach' /\ GrantInv'
<1>1. CASE Boot \/ RunConnects \/ RunFailsToConnect
  <2>1. ~subOk'
    BY <1>1, Zenon DEF Boot, RunConnects, RunFailsToConnect, SubOkOnReconnect
  <2> QED  BY <2>1 DEF Reach, GrantInv, Serving
<1>2. CASE AckuseridOk
  <2>1. packet.user \in Userids
    BY <1>2, MessageFacts DEF AckuseridOk, Handles, Types, PacketTypes
  <2>2. /\ userid' = StrNCpy(userid, packet.user) /\ pc' = "subread" /\ granted' = packet.user
        /\ longest' = IF Len(packet.user) > longest THEN Len(packet.user) ELSE longest
    BY <1>2 DEF AckuseridOk, UseridCopy
  <2>3. \A i \in 1..Len(packet.user) : userid'[i] = packet.user[i]
    BY <2>1, <2>2, CopyFacts DEF Types, FieldInv, RamTypes
  <2>4. Len(granted') <= longest'
    <3>1. Len(packet.user) \in 1..FieldSize /\ longest \in 0..FieldSize /\ FieldSize \in Nat
      BY <2>1, UseridFacts, TextAssumption DEF Types, RamTypes
    <3> QED  BY <2>2, <3>1
  <2> QED  BY <2>1, <2>2, <2>3, <2>4 DEF Reach, GrantInv
<1>3. CASE SubscribeRead \/ SubscribeWrite
  <2>1. UNCHANGED <<session, subOk, userid, granted, longest>>
    BY <1>3 DEF SubscribeRead, SubscribeWrite, ramVars
  <2>2. CASE SubscribeRead
    <3>1. pc' = "subwrite" /\ (session = "up" => <<Str(userid), "read">> \in subs')
      BY <2>2 DEF SubscribeRead, SubUser
    <3> QED  BY <2>1, <3>1 DEF Reach, GrantInv, Serving
  <2>3. CASE SubscribeWrite
    <3>1. pc = "subwrite" /\ pc' = "app" /\ subs \subseteq subs'
          /\ (session = "up" => <<Str(userid), "write">> \in subs')
      BY <2>3 DEF SubscribeWrite, SubUser
    <3> QED  BY <2>1, <3>1 DEF Reach, GrantInv, Serving, Topics
  <2> QED  BY <1>3, <2>2, <2>3
<1>4. CASE ~(Boot \/ RunConnects \/ RunFailsToConnect \/ AckuseridOk \/ SubscribeRead \/ SubscribeWrite)
  <2>1. CASE SessionEnds
    BY <2>1 DEF SessionEnds, Reach, GrantInv, Serving
  <2>2. CASE ~SessionEnds
    BY <1>4, <2>2, SessionKept DEF Reach, GrantInv, Serving, Topics
  <2> QED  BY <2>1, <2>2
<1> QED  BY <1>1, <1>2, <1>3, <1>4

LEMMA ReachInvariance == Spec => [](Types /\ Reach /\ GrantInv)
<1>1. Init => Reach /\ GrantInv
  BY DEF Init, Reach, GrantInv, Serving
<1> QED  BY <1>1, InitDeviceTypes, DeviceTypesStep, ReachStep, PTL DEF Spec

\* A registered device holds both topics of the userid it goes by, for userids
\* of any length granted in any order.
THEOREM ServingReachableHolds == Spec => []ServingReachable
<1>1. Reach => ServingReachable
  BY DEF Reach, ServingReachable, Topics
<1> QED  BY <1>1, ReachInvariance, PTL

\* A registered device goes by the granted userid, until a shorter one follows
\* a longer one between two resets, and then by another.
THEOREM UseridExactHolds == Spec => []UseridExact
<1>1. Types /\ GrantInv => UseridExact
  <2> SUFFICES ASSUME Types, GrantInv, Serving
               PROVE  Str(userid) = granted <=> Len(granted) >= longest
    BY DEF UseridExact
  <2>1. granted \in Userids /\ Len(granted) <= longest
        /\ \A i \in 1..Len(granted) : userid[i] = granted[i]
    BY DEF GrantInv
  <2>2. granted \in Seq(Chars) /\ longest \in 0..FieldSize /\ Len(granted) \in Nat
    BY <2>1, UseridFacts, TextAssumption DEF Types, RamTypes
  <2>3. Str(userid) = [i \in 1..longest |-> userid[i]] /\ Len(Str(userid)) = longest
    BY <2>2, StrFacts DEF Types, FieldInv
  <2>4. CASE Len(granted) = longest
    <3>1. Str(userid) = granted
      BY <2>1, <2>2, <2>3, <2>4
    <3> QED  BY <2>2, <2>4, <3>1
  <2>5. CASE Len(granted) < longest
    BY <2>2, <2>3, <2>5
  <2> QED  BY <2>1, <2>2, <2>4, <2>5
<1> QED  BY <1>1, ReachInvariance, PTL

-----------------------------------------------------------------------------
(* Acknowledgements. *)

\* Nothing but sdAck() publishes one.
LEMMA OnlyAckAcks ==
    ASSUME [Next]_vars, acked' # acked, acked' # None
    PROVE  Ack
<1>1. CASE Boot \/ RunStart \/ WifiPoll \/ RunGoesOn \/ RunConnects \/ RunFailsToConnect
  BY <1>1 DEF Boot, RunStart, WifiPoll, RunGoesOn, RunConnects, RunFailsToConnect, outVars
<1>2. CASE PollNothing \/ Receive \/ AckuseridOk \/ SubscribeRead \/ SubscribeWrite
  BY <1>2 DEF PollNothing, Receive, AckuseridOk, SubscribeRead, SubscribeWrite, outVars
<1>3. CASE AckuseridRedirect \/ Ignored \/ ReadCommand \/ WriteCommand
  BY <1>3 DEF AckuseridRedirect, Ignored, ReadCommand, WriteCommand, Reset, outVars
<1>4. CASE Restart \/ WifiClear \/ Update \/ UpdateFails \/ UpdateEnds \/ UpdateReports
  BY <1>4 DEF Restart, WifiClear, Update, UpdateFails, UpdateEnds, UpdateReports, Reset, outVars
<1>5. CASE AppReports \/ AppWaits \/ ApStarts \/ ApWindowOver \/ ApAccepts
  BY <1>5 DEF AppReports, AppWaits, ApStarts, ApWindowOver, ApAccepts, Reset, outVars
<1>6. CASE ApForm \/ ApAbandon \/ ApClientDone
  BY <1>6 DEF ApForm, ApAbandon, ApClientDone, Reset, outVars
<1>7. CASE WifiJoins \/ WifiLost \/ SessionDrops \/ CloudAnswers \/ CloudCommands \/ Tick \/ CalmComes
           \/ UNCHANGED vars
  BY <1>7 DEF WifiJoins, WifiLost, SessionDrops, CloudAnswers, CloudCommands, Tick, CalmComes, vars, outVars
<1> QED  BY <1>1, <1>2, <1>3, <1>4, <1>5, <1>6, <1>7 DEF Next, Program

\* Where the data of a read leads.
LEMMA ReadCallDecoded ==
    ASSUME NEW msg \in Reads, NEW f \in Leftovers, NEW r \in Rests, msg.src # <<>>
    PROVE  /\ ReadCall(msg, f, r) # None /\ ReadCall(msg, f, r).msg = msg
           /\ AckDecode(ReadCall(msg, f, r).devack) =
                 [user |-> msg.src, dev |-> msg.from.dev, off |-> msg.from.off,
                  point |-> msg.point, ep |-> msg.from.ep]
<1>1. /\ msg.src \in Sources /\ msg.from \in Askers /\ msg.point \in Points
  BY DEF Reads
<1>2. msg.src \in Text
  BY <1>1, TextAssumption DEF Text
<1>3. /\ ReadCall(msg, f, r).msg = msg
      /\ ReadCall(msg, f, r).devack = Followed(AckEncode(msg.src, msg.from, msg.point), r)
  BY DEF ReadCall
<1> QED  BY <1>1, <1>2, <1>3, AckDecoded, NoneAssumption

\* An acknowledgement goes to who asked and names the point asked, for texts of
\* any length and whatever stood behind the data.
THEOREM AckAnswersReadHolds == Spec => AckAnswersRead
<1>1. Types /\ [Next]_vars =>
         [acked' # acked /\ acked' # None =>
            called # None /\ called.msg.cmd = "read"
            /\ acked' = [user |-> called.msg.src, dev |-> called.msg.from.dev,
                         off |-> called.msg.from.off, point |-> called.msg.point,
                         ep |-> called.msg.from.ep]]_vars
  <2> SUFFICES ASSUME Types, [Next]_vars, acked' # acked, acked' # None
               PROVE  called # None /\ called.msg.cmd = "read"
                      /\ acked' = [user |-> called.msg.src, dev |-> called.msg.from.dev,
                                   off |-> called.msg.from.off, point |-> called.msg.point,
                                   ep |-> called.msg.from.ep]
    OBVIOUS
  <2>1. pc = "ack" /\ acked' = AckDecode(called.devack)
    BY OnlyAckAcks DEF Ack
  <2>2. PICK msg \in Reads, f \in Leftovers, r \in Rests : msg.src # <<>> /\ called = ReadCall(msg, f, r)
    BY <2>1 DEF Types, Called
  <2>3. msg.cmd = "read"
    BY DEF Reads
  <2>4. called # None /\ called.msg = msg
        /\ AckDecode(called.devack) =
              [user |-> msg.src, dev |-> msg.from.dev, off |-> msg.from.off,
               point |-> msg.point, ep |-> msg.from.ep]
    BY <2>2, ReadCallDecoded
  <2> QED  BY <2>1, <2>3, <2>4, Zenon
<1> QED  BY <1>1, DeviceTypes, PTL DEF Spec, AckAnswersRead

-----------------------------------------------------------------------------
(* The device the cloud relies on. *)

IsAnswer(m) == m.cmd = "ackuserid"
NoAnswer == \A i \in DOMAIN inbox : ~IsAnswer(inbox[i])

\* A registration has one answer: it is owed, on its way, being handled or over.
Answers ==
    /\ Serving => ~asked /\ NoAnswer /\ (pc = "handle" => ~IsAnswer(packet))
    /\ asked => NoAnswer /\ (pc = "handle" => ~IsAnswer(packet))
    /\ pc = "handle" /\ IsAnswer(packet) => NoAnswer
    /\ \A i, j \in DOMAIN inbox : IsAnswer(inbox[i]) /\ IsAnswer(inbox[j]) => i = j

\* The steps that concern no answer.
LEMMA AnswersKept ==
    ASSUME Answers, SessionEnds \/ UNCHANGED <<asked, inbox>>,
           Serving' => Serving, pc' = "handle" => pc = "handle" /\ packet' = packet
    PROVE  Answers'
<1>1. CASE SessionEnds
  <2>1. inbox' = <<>> /\ ~asked' /\ ~Serving'
    BY <1>1, Zenon DEF SessionEnds, Serving
  <2>2. NoAnswer'
    BY <2>1 DEF NoAnswer
  <2>3. \A i, j \in DOMAIN inbox' : i = j
    BY <2>1
  <2> QED  BY <2>1, <2>2, <2>3 DEF Answers
<1>2. CASE UNCHANGED <<asked, inbox>>
  BY <1>2 DEF Answers, NoAnswer, IsAnswer
<1> QED  BY <1>1, <1>2

LEMMA AnswersStep ==
    ASSUME Types, Answers, [Next]_vars
    PROVE  Answers'
<1>0. CloudTypes
  BY DEF Types
<1>1. CASE RunConnects
  <2>1. inbox = <<>> /\ inbox' = <<>> /\ pc' = "poll" /\ ~subOk'
    BY <1>0, <1>1 DEF RunConnects, CloudTypes, SubOkOnReconnect
  <2>2. NoAnswer' /\ ~Serving' /\ \A i, j \in DOMAIN inbox' : i = j
    BY <2>1 DEF NoAnswer, Serving
  <2> QED  BY <2>1, <2>2 DEF Answers
<1>2. CASE Receive
  <2>1. /\ packet' = inbox[1] /\ inbox' = Tail(inbox) /\ pc' = "handle"
        /\ UNCHANGED <<session, subOk, asked>> /\ inbox # <<>>
        /\ 1 \in DOMAIN inbox
        /\ \A i \in DOMAIN inbox' : inbox'[i] = inbox[i + 1] /\ i + 1 \in DOMAIN inbox /\ i \in Nat \ {0}
    BY <1>0, <1>2, InboxFacts DEF Receive, CloudTypes, ramVars
  <2>2. NoAnswer => NoAnswer' /\ ~IsAnswer(packet')
    BY <2>1 DEF NoAnswer, IsAnswer
  <2>3. IsAnswer(packet') => NoAnswer'
    BY <2>1 DEF Answers, NoAnswer, IsAnswer
  <2>4. \A i, j \in DOMAIN inbox' : IsAnswer(inbox'[i]) /\ IsAnswer(inbox'[j]) => i = j
    BY <2>1 DEF Answers, IsAnswer
  <2>5. IsAnswer(packet)' <=> IsAnswer(packet')
    BY DEF IsAnswer
  <2>6. Serving' => Serving
    BY <2>1 DEF Serving
  <2>7. asked' => asked
    BY <2>1
  <2>8. (Serving \/ asked) => NoAnswer' /\ ~IsAnswer(packet')
    BY <2>2 DEF Answers
  <2> HIDE DEF IsAnswer, NoAnswer, Serving
  <2> QED  BY <2>3, <2>4, <2>5, <2>6, <2>7, <2>8 DEF Answers
<1>3. CASE AckuseridOk
  <2>1. /\ pc = "handle" /\ IsAnswer(packet) /\ pc' = "subread" /\ UNCHANGED <<asked, inbox, session>>
    BY <1>3, MessageFacts DEF AckuseridOk, Handles, Types, PacketTypes, IsAnswer
  <2>2. ~asked /\ NoAnswer
    BY <2>1 DEF Answers
  <2> QED  BY <2>1, <2>2 DEF Answers, NoAnswer, IsAnswer
<1>4. CASE CloudAnswers
  <2>1. asked /\ ~asked' /\ UNCHANGED <<pc, packet, session, subOk>>
    BY <1>4 DEF CloudAnswers, ramVars
  <2>2. PICK m : inbox' = Append(inbox, m)
    BY <1>4 DEF CloudAnswers
  <2>3. NoAnswer /\ (pc = "handle" => ~IsAnswer(packet)) /\ ~Serving
    BY <2>1 DEF Answers
  <2>4. /\ Len(inbox) \in Nat /\ DOMAIN inbox = 1..Len(inbox) /\ DOMAIN inbox' = 1..(Len(inbox) + 1)
        /\ \A i \in 1..Len(inbox) : inbox'[i] = inbox[i]
    BY <1>0, <2>2 DEF CloudTypes
  <2>5. \A i \in DOMAIN inbox' : IsAnswer(inbox'[i]) => i = Len(inbox) + 1
    BY <2>3, <2>4 DEF NoAnswer, IsAnswer
  <2> QED  BY <2>1, <2>3, <2>5 DEF Answers, NoAnswer, IsAnswer, Serving
<1>5. CASE CloudCommands
  <2>1. UNCHANGED <<pc, packet, session, subOk, asked>>
    BY <1>5 DEF CloudCommands, ramVars
  <2>2. PICK m \in Commands : inbox' = Append(inbox, m)
    BY <1>5 DEF CloudCommands
  <2>3. ~IsAnswer(m)
    BY DEF Commands, Reads, Writes, Functions, IsAnswer
  <2>4. /\ DOMAIN inbox = 1..Len(inbox) /\ DOMAIN inbox' = 1..(Len(inbox) + 1) /\ Len(inbox) \in Nat
        /\ \A i \in 1..Len(inbox) : inbox'[i] = inbox[i]
        /\ inbox'[Len(inbox) + 1] = m
    BY <1>0, <2>2 DEF CloudTypes
  <2>5. \A i \in DOMAIN inbox' : IsAnswer(inbox'[i]) => i \in DOMAIN inbox /\ inbox'[i] = inbox[i]
    BY <2>3, <2>4
  <2> QED  BY <2>1, <2>5 DEF Answers, NoAnswer, IsAnswer, Serving
<1>6. CASE Boot \/ RunFailsToConnect
  <2>1. ~subOk' /\ UNCHANGED <<asked, inbox, session>> /\ pc' # "handle"
    BY <1>6, Zenon DEF Boot, RunFailsToConnect, SubOkOnReconnect, cloudVars
  <2> QED  BY <2>1, AnswersKept DEF Serving
<1>7. CASE ~(RunConnects \/ Receive \/ AckuseridOk \/ CloudAnswers \/ CloudCommands \/ Boot
             \/ RunFailsToConnect)
  <2>1. SessionEnds \/ UNCHANGED <<asked, inbox>>
    <3>1. CASE RunStart \/ WifiPoll \/ RunGoesOn \/ PollNothing \/ SubscribeRead \/ SubscribeWrite
      BY <3>1 DEF RunStart, WifiPoll, RunGoesOn, PollNothing, SubscribeRead, SubscribeWrite, cloudVars
    <3>2. CASE AckuseridRedirect \/ Ignored \/ ReadCommand \/ Ack \/ WriteCommand
      BY <3>2 DEF AckuseridRedirect, Ignored, ReadCommand, Ack, WriteCommand, Reset, cloudVars
    <3>3. CASE Restart \/ WifiClear \/ Update \/ UpdateFails \/ UpdateEnds \/ UpdateReports
      BY <3>3 DEF Restart, WifiClear, Update, UpdateFails, UpdateEnds, UpdateReports, Reset, cloudVars
    <3>4. CASE AppReports \/ AppWaits \/ ApStarts \/ ApWindowOver \/ ApAccepts \/ ApForm \/ ApAbandon
               \/ ApClientDone
      BY <3>4 DEF AppReports, AppWaits, ApStarts, ApWindowOver, ApAccepts, ApForm, ApAbandon,
                  ApClientDone, Reset, cloudVars
    <3>5. CASE WifiJoins \/ WifiLost \/ SessionDrops \/ Tick \/ CalmComes \/ UNCHANGED vars
      BY <3>5 DEF WifiJoins, WifiLost, SessionDrops, Tick, CalmComes, cloudVars, vars
    <3> QED  BY <1>7, <3>1, <3>2, <3>3, <3>4, <3>5 DEF Next, Program
  <2>2. pc' = "handle" => pc = "handle" /\ packet' = packet
    <3>1. CASE RunStart \/ WifiPoll \/ RunGoesOn \/ PollNothing \/ SubscribeRead \/ SubscribeWrite
      BY <3>1 DEF RunStart, WifiPoll, RunGoesOn, PollNothing, SubscribeRead, SubscribeWrite
    <3>2. CASE AckuseridRedirect \/ Ignored \/ ReadCommand \/ Ack \/ WriteCommand
      BY <3>2 DEF AckuseridRedirect, Ignored, ReadCommand, Ack, WriteCommand, Reset
    <3>3. CASE Restart \/ WifiClear \/ Update \/ UpdateFails \/ UpdateEnds \/ UpdateReports
      BY <3>3 DEF Restart, WifiClear, Update, UpdateFails, UpdateEnds, UpdateReports, Reset
    <3>4. CASE AppReports \/ AppWaits \/ ApStarts \/ ApWindowOver \/ ApAccepts \/ ApForm \/ ApAbandon
               \/ ApClientDone
      BY <3>4 DEF AppReports, AppWaits, ApStarts, ApWindowOver, ApAccepts, ApForm, ApAbandon,
                  ApClientDone, Reset
    <3>5. CASE WifiJoins \/ WifiLost \/ SessionDrops \/ Tick \/ CalmComes \/ UNCHANGED vars
      BY <3>5 DEF WifiJoins, WifiLost, SessionDrops, Tick, CalmComes, vars
    <3> QED  BY <1>7, <3>1, <3>2, <3>3, <3>4, <3>5 DEF Next, Program
  <2>3. Serving' => Serving
    <3>1. CASE SubscribeRead \/ SubscribeWrite
      BY <3>1 DEF SubscribeRead, SubscribeWrite, ramVars, Serving
    <3>2. CASE ~(SubscribeRead \/ SubscribeWrite)
      <4>1. SessionEnds \/ UNCHANGED <<session, subOk>>
        BY <1>7, <3>2, SessionKept
      <4> QED  BY <4>1 DEF SessionEnds, Serving
    <3> QED  BY <3>1, <3>2
  <2> QED  BY <2>1, <2>2, <2>3, AnswersKept
<1> QED  BY <1>1, <1>2, <1>3, <1>4, <1>5, <1>6, <1>7

\* A reset leaves no session.
BootDown == pc = "boot" => session = "down"

LEMMA BootStep ==
    ASSUME BootDown, [Next]_vars
    PROVE  BootDown'
<1>1. CASE Boot \/ RunStart \/ WifiPoll \/ RunGoesOn \/ RunConnects \/ RunFailsToConnect
  BY <1>1 DEF BootDown, Boot, RunStart, WifiPoll, RunGoesOn, RunConnects, RunFailsToConnect
<1>2. CASE PollNothing \/ Receive \/ AckuseridOk \/ SubscribeRead \/ SubscribeWrite
  BY <1>2 DEF BootDown, PollNothing, Receive, AckuseridOk, SubscribeRead, SubscribeWrite
<1>3. CASE AckuseridRedirect \/ Ignored \/ ReadCommand \/ Ack \/ WriteCommand
  BY <1>3 DEF BootDown, AckuseridRedirect, Ignored, ReadCommand, Ack, WriteCommand, Reset, SessionEnds
<1>4. CASE Restart \/ WifiClear \/ Update \/ UpdateFails \/ UpdateEnds \/ UpdateReports
  BY <1>4 DEF BootDown, Restart, WifiClear, Update, UpdateFails, UpdateEnds, UpdateReports, Reset, SessionEnds
<1>5. CASE AppReports \/ AppWaits \/ ApStarts \/ ApWindowOver \/ ApAccepts
  BY <1>5 DEF BootDown, AppReports, AppWaits, ApStarts, ApWindowOver, ApAccepts, Reset, SessionEnds
<1>6. CASE ApForm \/ ApAbandon \/ ApClientDone
  BY <1>6 DEF BootDown, ApForm, ApAbandon, ApClientDone, Reset, SessionEnds
<1>7. CASE WifiJoins \/ WifiLost \/ SessionDrops \/ CloudAnswers \/ CloudCommands \/ Tick \/ CalmComes
           \/ UNCHANGED vars
  BY <1>7 DEF BootDown, WifiJoins, WifiLost, SessionDrops, SessionEnds, CloudAnswers, CloudCommands, Tick,
              CalmComes, vars, cloudVars
<1> QED  BY <1>1, <1>2, <1>3, <1>4, <1>5, <1>6, <1>7 DEF Next, Program

\* A step that leaves session, registration, userid and report alone is a stutter.
LEMMA LinkStutters ==
    ASSUME UNCHANGED <<session, subOk, userid, sent>>
    PROVE  UNCHANGED Link!vars
  BY DEF Link!vars, LinkState, LinkGrant, Serving

\* The end of a session breaks the connection.
LEMMA LinkBreaks ==
    ASSUME Types, SessionEnds, UNCHANGED sent
    PROVE  [Link!Next]_(Link!vars)
<1>1. LinkState' = "off" /\ LinkGrant' = {}
  BY DEF SessionEnds, LinkState, LinkGrant, Serving
<1>2. CASE session = "down"
  BY <1>1, <1>2 DEF LinkState, LinkGrant, Serving, Link!vars
<1>3. CASE session = "up"
  <2>1. LinkState # "off"
    BY <1>3 DEF LinkState
  <2> QED  BY <1>1, <2>1 DEF Link!Break, Link!Next
<1> QED  BY <1>2, <1>3 DEF Types, CloudTypes

\* What is reported is reported under the userid the device goes by.
LEMMA LinkReports ==
    ASSUME NEW kind, NEW length, Report(kind, length), UNCHANGED <<session, subOk, userid>>
    PROVE  [Link!Next]_(Link!vars)
<1>1. CASE sent' = sent
  BY <1>1, LinkStutters
<1>2. CASE sent' # sent
  <2>1. subOk /\ session = "up" /\ sent' = Str(userid)
    BY <1>2 DEF Report
  <2>2. LinkState = "serving" /\ sent' \in LinkGrant
    BY <2>1 DEF LinkState, LinkGrant, Serving
  <2>3. UNCHANGED <<LinkState, LinkGrant>>
    BY DEF LinkState, LinkGrant, Serving
  <2> QED  BY <2>2, <2>3 DEF Link!Report, Link!Next
<1> QED  BY <1>1, <1>2

\* An ackuserid grants a connection that had none, or comes after its end.
LEMMA LinkGrants ==
    ASSUME Types, Types', Answers, AckuseridOk
    PROVE  [Link!Next]_(Link!vars)
<1>1. pc = "handle" /\ IsAnswer(packet) /\ subOk' = TRUE /\ UNCHANGED <<session, sent>>
  BY MessageFacts DEF AckuseridOk, Handles, Types, PacketTypes, IsAnswer, outVars
<1>2. ~Serving
  BY <1>1 DEF Answers
<1>3. CASE session = "down"
  <2>1. LinkState = "off" /\ LinkState' = "off" /\ LinkGrant = {} /\ LinkGrant' = {}
    BY <1>1, <1>3 DEF LinkState, LinkGrant, Serving
  <2> QED  BY <1>1, <2>1 DEF Link!vars
<1>4. CASE session = "up"
  <2>1. ~subOk
    BY <1>2, <1>4 DEF Serving
  <2>2. LinkState = "linked" /\ LinkState' = "serving" /\ LinkGrant' = {Str(userid)'}
    BY <1>1, <1>4, <2>1 DEF LinkState, LinkGrant, Serving
  <2>3. Str(userid') \in Seq(Chars)
    BY StrFacts DEF Types, FieldInv, RamTypes
  <2>4. LinkGrant' \in (SUBSET Seq(Chars)) \ {{}}
    BY <2>2, <2>3
  <2> QED  BY <1>1, <2>2, <2>4 DEF Link!Grant, Link!Next
<1> QED  BY <1>3, <1>4 DEF Types, CloudTypes

\* Every step of the device is one of DeviceLink or a stutter.
LEMMA LinkStep ==
    ASSUME Types, Types', Answers, BootDown, [Next]_vars
    PROVE  [Link!Next]_(Link!vars)
<1>1. CASE Boot \/ RunFailsToConnect
  <2>1. session' = session /\ ~subOk' /\ sent' = sent /\ session = "down"
    BY <1>1, Zenon DEF Boot, RunFailsToConnect, SubOkOnReconnect, cloudVars, outVars, BootDown
  <2> QED  BY <2>1 DEF LinkState, LinkGrant, Serving, Link!vars
<1>2. CASE RunConnects
  <2>1. session = "down" /\ session' = "up" /\ ~subOk' /\ sent' = sent
    BY <1>2, Zenon DEF RunConnects, SubOkOnReconnect
  <2>2. LinkState = "off" /\ LinkState' = "linked" /\ LinkGrant' = LinkGrant
    BY <2>1 DEF LinkState, LinkGrant, Serving
  <2> QED  BY <2>1, <2>2 DEF Link!Connect, Link!Next
<1>3. CASE AckuseridOk
  BY <1>3, LinkGrants
<1>4. CASE UpdateReports \/ AppReports
  BY <1>4, LinkReports DEF UpdateReports, AppReports, ramVars, cloudVars
<1>5. CASE SubscribeRead \/ SubscribeWrite
  <2>1. UNCHANGED <<session, subOk, userid, sent>>
    BY <1>5 DEF SubscribeRead, SubscribeWrite, ramVars
  <2> QED  BY <2>1, LinkStutters
<1>6. CASE ~(Boot \/ RunFailsToConnect \/ RunConnects \/ AckuseridOk \/ UpdateReports \/ AppReports
             \/ SubscribeRead \/ SubscribeWrite)
  <2>1. sent' = sent
    <3>1. CASE RunStart \/ WifiPoll \/ RunGoesOn \/ PollNothing \/ Receive
      BY <3>1 DEF RunStart, WifiPoll, RunGoesOn, PollNothing, Receive, outVars
    <3>2. CASE AckuseridRedirect \/ Ignored \/ ReadCommand \/ Ack \/ WriteCommand
      BY <3>2 DEF AckuseridRedirect, Ignored, ReadCommand, Ack, WriteCommand, Reset, outVars
    <3>3. CASE Restart \/ WifiClear \/ Update \/ UpdateFails \/ UpdateEnds
      BY <3>3 DEF Restart, WifiClear, Update, UpdateFails, UpdateEnds, Reset, outVars
    <3>4. CASE AppWaits \/ ApStarts \/ ApWindowOver \/ ApAccepts \/ ApForm \/ ApAbandon \/ ApClientDone
      BY <3>4 DEF AppWaits, ApStarts, ApWindowOver, ApAccepts, ApForm, ApAbandon, ApClientDone, Reset,
                  outVars
    <3>5. CASE WifiJoins \/ WifiLost \/ SessionDrops \/ CloudAnswers \/ CloudCommands \/ Tick \/ CalmComes
               \/ UNCHANGED vars
      BY <3>5 DEF WifiJoins, WifiLost, SessionDrops, CloudAnswers, CloudCommands, Tick, CalmComes,
                  outVars, vars
    <3> QED  BY <1>6, <3>1, <3>2, <3>3, <3>4, <3>5 DEF Next, Program
  <2>2. SessionEnds \/ UNCHANGED <<session, subOk, userid>>
    BY <1>6, SessionKept
  <2> QED  BY <2>1, <2>2, LinkBreaks, LinkStutters
<1> QED  BY <1>1, <1>2, <1>3, <1>4, <1>5, <1>6

\* The device implements DeviceLink: it serves on a grant of the present
\* connection only and reports under the userid it was granted, as its field
\* gives it.
THEOREM DeviceImplementsLink == Spec => LinkSpec
<1>1. Init => Link!Init /\ Answers /\ BootDown
  BY DEF Init, Link!Init, LinkState, LinkGrant, Serving, Answers, NoAnswer, BootDown
<1>2. Types /\ Types' /\ Answers /\ BootDown /\ [Next]_vars =>
         [Link!Next]_(Link!vars) /\ Answers' /\ BootDown'
  BY LinkStep, AnswersStep, BootStep
<1> QED  BY <1>1, <1>2, DeviceTypes, PTL DEF Spec, LinkSpec, Link!Spec

-----------------------------------------------------------------------------
(* Room for the topics. *)

\* For every text that the field can hold and every read that can be asked,
\* the topics after the registration and the acknowledgement data fit their
\* buffers.
RoomForTopics ==
    /\ \A user \in Seq(Chars) : Len(user) <= FieldSize =>
          /\ Fits("read", ReadLength(Dev, user)) /\ Fits("write", WriteLength(Dev, user))
          /\ Fits("updatestate", UpdateStatusLength(user, Ep, Dev))
          /\ Fits("valuechange", ValuechangeLength(user, Ep, Dev, <<"1">>))
          /\ \A msg \in Reads :
                Fits("ack", AckLength(user, [user |-> msg.src, dev |-> msg.from.dev, off |-> msg.from.off,
                                             point |-> msg.point, ep |-> msg.from.ep]))
    /\ \A msg \in Reads : Fits("devack", AckCharacters(AckEncode(msg.src, msg.from, msg.point)))

LEMMA RoomStep ==
    ASSUME RoomForTopics, Types, ServiceTopicsFit, [Next]_vars
    PROVE  ServiceTopicsFit'
<1> USE DEF ServiceTopicsFit
<1>0. Str(userid) \in Seq(Chars) /\ Len(Str(userid)) <= FieldSize
  <2>1. longest \in 0..FieldSize /\ FieldSize \in Nat
    BY TextAssumption DEF Types, RamTypes
  <2>2. userid \in Fields /\ (\A i \in 1..FieldSize : userid[i] # Nul <=> i <= longest)
    BY DEF Types, FieldInv
  <2>3. Str(userid) \in Seq(Chars) /\ Len(Str(userid)) = longest
    BY <2>1, <2>2, StrFacts
  <2> QED  BY <2>1, <2>3
<1>1. CASE RunConnects
  BY <1>1 DEF RunConnects, RegisterPrints
<1>2. CASE SubscribeRead \/ SubscribeWrite
  BY <1>0, <1>2 DEF SubscribeRead, SubscribeWrite, Prints, SubUser, RoomForTopics
<1>3. CASE ReadCommand
  <2>1. packet \in Reads
    BY <1>3, MessageFacts DEF ReadCommand, Handles, Types, PacketTypes
  <2> QED  BY <1>3, <2>1 DEF ReadCommand, Prints, RoomForTopics
<1>4. CASE Ack
  <2>1. PICK msg \in Reads, f \in Leftovers, r \in Rests : msg.src # <<>> /\ called = ReadCall(msg, f, r)
    BY <1>4 DEF Types, Called, Ack
  <2>2. AckDecode(called.devack) =
           [user |-> msg.src, dev |-> msg.from.dev, off |-> msg.from.off,
            point |-> msg.point, ep |-> msg.from.ep]
    BY <2>1, ReadCallDecoded
  <2>3. Fits("ack", AckLength(Str(userid), AckDecode(called.devack)))
    BY <1>0, <2>2 DEF RoomForTopics
  <2> QED  BY <1>4, <2>3 DEF Ack, Prints
<1>5. CASE UpdateReports \/ AppReports
  BY <1>0, <1>5 DEF UpdateReports, AppReports, Report, Prints, RoomForTopics
<1>6. CASE UNCHANGED overrun
  BY <1>6
<1> QED  BY <1>1, <1>2, <1>3, <1>4, <1>5, <1>6, OverrunKept

\* Lengths for which there is room.  With a devindex of 24 characters and an
\* epindex of 6 the field of the userid may have 30 cells (it has 15), and the
\* texts of a read have to leave devack and the topic of its answer within
\* their buffers.
ServiceTexts ==
    /\ Ep \in Text /\ Dev \in Text
    /\ Len(Dev) + FieldSize <= 58
    /\ 2 * FieldSize + Len(Ep) + Len(Dev) <= 91
    /\ \A src \in Sources, from \in Askers, point \in Points :
          /\ Len(src) + Len(from.dev) + Len(from.off) + Len(point) + Len(from.ep) <= 74
          /\ FieldSize + Len(from.ep) + Len(from.dev) + Len(src) + Len(from.off) <= 103

\* What the buffers of an acknowledgement hold.
LEMMA AckRoom ==
    ASSUME NEW n \in Int
    PROVE  (n < 80 => Fits("devack", n)) /\ (n < 120 => Fits("ack", n))
  BY DEF Fits, Room

\* These lengths are enough.
LEMMA ServiceTextsFit == ServiceTexts => RoomForTopics
<1> SUFFICES ASSUME ServiceTexts PROVE RoomForTopics
  OBVIOUS
<1>1. Len(Ep) \in Nat /\ Len(Dev) \in Nat /\ FieldSize \in Nat /\ Len(<<"1">>) = 1
  BY TextAssumption DEF ServiceTexts, Text
<1>3. ASSUME NEW user \in Seq(Chars), Len(user) <= FieldSize
      PROVE  /\ Fits("read", ReadLength(Dev, user)) /\ Fits("write", WriteLength(Dev, user))
             /\ Fits("updatestate", UpdateStatusLength(user, Ep, Dev))
             /\ Fits("valuechange", ValuechangeLength(user, Ep, Dev, <<"1">>))
  <2>1. Len(user) \in Nat
    OBVIOUS
  <2> QED  BY <1>1, <1>3, <2>1
              DEF ServiceTexts, Fits, Room, ReadLength, WriteLength, UpdateStatusLength, ValuechangeLength
<1>4. ASSUME NEW msg \in Reads
      PROVE  /\ Fits("devack", AckCharacters(AckEncode(msg.src, msg.from, msg.point)))
             /\ \A user \in Seq(Chars) : Len(user) <= FieldSize =>
                   Fits("ack", AckLength(user, [user |-> msg.src, dev |-> msg.from.dev,
                                                off |-> msg.from.off, point |-> msg.point,
                                                ep |-> msg.from.ep]))
  <2>1. msg.src \in Sources /\ msg.from \in Askers /\ msg.point \in Points
    BY DEF Reads
  <2>2. /\ Len(msg.src) \in Nat /\ Len(msg.point) \in Nat
        /\ Len(msg.from.dev) \in Nat /\ Len(msg.from.off) \in Nat /\ Len(msg.from.ep) \in Nat
    BY <2>1, TextAssumption
  <2>3. /\ Len(msg.src) + Len(msg.from.dev) + Len(msg.from.off) + Len(msg.point) + Len(msg.from.ep) <= 74
        /\ FieldSize + Len(msg.from.ep) + Len(msg.from.dev) + Len(msg.src) + Len(msg.from.off) <= 103
    BY <2>1 DEF ServiceTexts
  <2>4. AckCharacters(AckEncode(msg.src, msg.from, msg.point)) =
           Len(msg.src) + Len(msg.from.dev) + Len(msg.from.off) + Len(msg.point) + Len(msg.from.ep) + 5
    <3> DEFINE pieces == AckEncode(msg.src, msg.from, msg.point)
    <3>1. /\ pieces[1] = msg.src /\ pieces[2] = msg.from.dev /\ pieces[3] = msg.from.off
          /\ pieces[4] = msg.point /\ pieces[5] = msg.from.ep
      BY DEF AckEncode
    <3> HIDE DEF pieces
    <3>2. AckCharacters(pieces) =
             Len(msg.src) + Len(msg.from.dev) + Len(msg.from.off) + Len(msg.point) + Len(msg.from.ep) + 5
      BY <3>1, Zenon DEF AckCharacters
    <3> QED  BY <3>2 DEF pieces
  <2> DEFINE src == Len(msg.src)
             dev == Len(msg.from.dev)
             off == Len(msg.from.off)
             point == Len(msg.point)
             ep == Len(msg.from.ep)
  <2>5. Fits("devack", AckCharacters(AckEncode(msg.src, msg.from, msg.point)))
    <3> DEFINE length == AckCharacters(AckEncode(msg.src, msg.from, msg.point))
    <3>1. src \in Nat /\ dev \in Nat /\ off \in Nat /\ point \in Nat /\ ep \in Nat
      BY <2>2
    <3>2. src + dev + off + point + ep <= 74
      BY <2>3
    <3>3. length = src + dev + off + point + ep + 5
      BY <2>4
    <3> HIDE DEF length, src, dev, off, point, ep
    <3>4. length \in Int /\ length < 80
      BY <3>1, <3>2, <3>3
    <3>5. Fits("devack", length)
      BY <3>4, AckRoom
    <3> QED  BY <3>5 DEF length
  <2>6. ASSUME NEW user \in Seq(Chars), Len(user) <= FieldSize
        PROVE  Fits("ack", AckLength(user, [user |-> msg.src, dev |-> msg.from.dev,
                                            off |-> msg.from.off, point |-> msg.point,
                                            ep |-> msg.from.ep]))
    <3> DEFINE to == [user |-> msg.src, dev |-> msg.from.dev, off |-> msg.from.off,
                      point |-> msg.point, ep |-> msg.from.ep]
               length == AckLength(user, to)
               mine == Len(user)
    <3>1. to.user = msg.src /\ to.dev = msg.from.dev /\ to.off = msg.from.off /\ to.ep = msg.from.ep
      OBVIOUS
    <3>2. src \in Nat /\ dev \in Nat /\ off \in Nat /\ ep \in Nat /\ mine \in Nat /\ FieldSize \in Nat
      BY <1>1, <2>2
    <3>3. FieldSize + ep + dev + src + off <= 103 /\ mine <= FieldSize
      BY <2>3, <2>6
    <3> HIDE DEF to
    <3>4. length = 16 + mine + ep + dev + src + off
      BY <3>1, Zenon DEF AckLength
    <3> HIDE DEF length, mine, src, dev, off, ep
    <3>5. length \in Int /\ length < 120
      BY <3>2, <3>3, <3>4
    <3>6. Fits("ack", length)
      BY <3>5, AckRoom
    <3> QED  BY <3>6 DEF to, length
  <2> QED  BY <2>5, <2>6
<1> QED  BY <1>3, <1>4 DEF RoomForTopics

\* Of the device that the form page configures, no topic but those of the
\* registration runs over its buffer, for texts of these lengths.
THEOREM ServiceTopicsFitHolds == ServiceTexts => (Spec => []ServiceTopicsFit)
<1> SUFFICES ASSUME ServiceTexts PROVE Spec => []ServiceTopicsFit
  OBVIOUS
<1>1. Init => ServiceTopicsFit
  BY DEF Init, ServiceTopicsFit
<1>2. Types /\ ServiceTopicsFit /\ [Next]_vars => ServiceTopicsFit'
  BY ServiceTextsFit, RoomStep
<1> QED  BY <1>1, <1>2, DeviceTypes, PTL DEF Spec

\* A topic that did not fit its buffer stays noted.
LEMMA OverrunStays ==
    ASSUME [Next]_vars
    PROVE  overrun \subseteq overrun'
<1>1. CASE RunConnects
  BY <1>1 DEF RunConnects, RegisterPrints
<1>2. CASE SubscribeRead \/ SubscribeWrite \/ ReadCommand \/ Ack
  BY <1>2 DEF SubscribeRead, SubscribeWrite, ReadCommand, Ack, Prints
<1>3. CASE UpdateReports \/ AppReports
  BY <1>3 DEF UpdateReports, AppReports, Report, Prints
<1> QED  BY <1>1, <1>2, <1>3, OverrunKept

\* Only sdRun() opens a session.
LEMMA OnlyRunConnects ==
    ASSUME [Next]_vars, session # "up", session' = "up"
    PROVE  RunConnects
<1>1. ~(Boot \/ RunFailsToConnect \/ AckuseridOk \/ SubscribeRead \/ SubscribeWrite)
  BY DEF Boot, RunFailsToConnect, AckuseridOk, SubscribeRead, SubscribeWrite, cloudVars
<1>2. ~SessionEnds
  BY DEF SessionEnds
<1> QED  BY <1>1, <1>2, SessionKept

\* With a devindex of 24 characters, as the form page of AP mode wants it, and
\* any epindex at all, no session begins without the topic of ackuserid printed
\* past the end of its buffer.
THEOREM PageDevindexOverruns ==
    ASSUME Dev \in Text, Ep \in Text, Len(Dev) >= 24, Ep # <<>>
    PROVE  Spec => [](session = "up" => "ackuserid" \in overrun)
<1> DEFINE Inv == session = "up" => "ackuserid" \in overrun
<1>1. ~Fits("ackuserid", AckuseridLength(Ep, Dev))
  <2>1. Len(Ep) \in Nat /\ Len(Ep) # 0 /\ Len(Dev) \in Nat
    BY DEF Text
  <2> QED  BY <2>1 DEF Fits, Room, AckuseridLength
<1>2. Init => Inv
  BY DEF Init
<1>3. Inv /\ [Next]_vars => Inv'
  <2> SUFFICES ASSUME Inv, [Next]_vars, session' = "up" PROVE "ackuserid" \in overrun'
    OBVIOUS
  <2>1. CASE RunConnects
    BY <1>1, <2>1 DEF RunConnects, RegisterPrints
  <2>2. CASE ~RunConnects
    BY <2>2, OnlyRunConnects, OverrunStays
  <2> QED  BY <2>1, <2>2
<1> QED  BY <1>2, <1>3, PTL DEF Spec

-----------------------------------------------------------------------------
(* What a callback is given. *)

\* The texts of a command are texts without Nul that fit their fields.
PlainTexts ==
    \A text \in Points \cup Values :
        text \in Text /\ Len(text) <= FieldSize /\ \A i \in 1..Len(text) : text[i] # Nul

\* A field of a local struct ends the text that is copied over its front.
EndsMet ==
    \A f \in Leftovers, text \in Points \cup Values :
        Len(text) < FieldSize => f[Len(text) + 1] = Nul

\* What a reader finds where a text of a command was copied to: the text and what
\* the field held behind it, or the text alone if the field ends there.
LEMMA CopiedField ==
    ASSUME PlainTexts, NEW f \in Leftovers, NEW text \in Points \cup Values
    PROVE  /\ Begins(Str(StrNCpy(f, text)), text)
           /\ (Len(text) < FieldSize => f[Len(text) + 1] = Nul) => Str(StrNCpy(f, text)) = text
<1>1. FieldSize \in Nat /\ Len(f) = FieldSize
  BY TextAssumption
<1>2. text \in Seq(STRING) /\ Len(text) <= FieldSize /\ \A i \in 1..Len(text) : text[i] # Nul
  BY DEF PlainTexts, Text
<1>3. Len(text) \in 0..FieldSize /\ text = [i \in 1..Len(text) |-> text[i]]
  BY <1>1, <1>2
<1> QED  BY <1>1, <1>2, <1>3, CopiedText

WriteCall(msg, first, second) ==
    [msg |-> msg, point |-> Str(StrNCpy(first, msg.point)), value |-> Str(StrNCpy(second, msg.value))]

\* What a callback was given is made of a message and of what the local structs
\* held before.
CallInv ==
    called # None =>
        \/ \E msg \in Reads, f \in Leftovers, r \in Rests : called = ReadCall(msg, f, r)
        \/ \E msg \in Writes, first, second \in Leftovers : called = WriteCall(msg, first, second)

\* Only the two commands call the application.
LEMMA CallKept ==
    ASSUME [Next]_vars, ~ReadCommand, ~WriteCommand
    PROVE  called' \in {called, None}
<1>1. CASE Boot \/ RunStart \/ WifiPoll \/ RunGoesOn \/ RunConnects \/ RunFailsToConnect
  BY <1>1 DEF Boot, RunStart, WifiPoll, RunGoesOn, RunConnects, RunFailsToConnect, outVars
<1>2. CASE PollNothing \/ Receive \/ AckuseridOk \/ SubscribeRead \/ SubscribeWrite
  BY <1>2 DEF PollNothing, Receive, AckuseridOk, SubscribeRead, SubscribeWrite, outVars
<1>3. CASE AckuseridRedirect \/ Ignored \/ Ack
  BY <1>3 DEF AckuseridRedirect, Ignored, Ack, Reset, outVars
<1>4. CASE Restart \/ WifiClear \/ Update \/ UpdateFails \/ UpdateEnds \/ UpdateReports
  BY <1>4 DEF Restart, WifiClear, Update, UpdateFails, UpdateEnds, UpdateReports, Reset, outVars
<1>5. CASE AppReports \/ AppWaits \/ ApStarts \/ ApWindowOver \/ ApAccepts
  BY <1>5 DEF AppReports, AppWaits, ApStarts, ApWindowOver, ApAccepts, Reset, outVars
<1>6. CASE ApForm \/ ApAbandon \/ ApClientDone
  BY <1>6 DEF ApForm, ApAbandon, ApClientDone, Reset, outVars
<1>7. CASE WifiJoins \/ WifiLost \/ SessionDrops \/ CloudAnswers \/ CloudCommands \/ Tick \/ CalmComes
           \/ UNCHANGED vars
  BY <1>7 DEF WifiJoins, WifiLost, SessionDrops, CloudAnswers, CloudCommands, Tick, CalmComes, vars, outVars
<1> QED  BY <1>1, <1>2, <1>3, <1>4, <1>5, <1>6, <1>7 DEF Next, Program

\* The commands by their type.
LEMMA CommandFacts ==
    ASSUME NEW m \in Messages, m.type = "data"
    PROVE  /\ TypeOf(m) = "read" => m \in Reads
           /\ TypeOf(m) = "write" => m \in Writes
<1>1. CASE m \in Replies
  BY <1>1 DEF Replies
<1>2. CASE m \in Reads
  BY <1>2 DEF Reads, TypeOf
<1>3. CASE m \in Writes
  BY <1>3 DEF Writes, TypeOf
<1>4. CASE m \in Functions
  BY <1>4 DEF Functions
<1> QED  BY <1>1, <1>2, <1>3, <1>4 DEF Messages, Commands

LEMMA CallStep ==
    ASSUME Types, CallInv, [Next]_vars
    PROVE  CallInv'
<1>1. CASE ReadCommand
  <2>1. packet \in Reads
    BY <1>1, CommandFacts DEF ReadCommand, Handles, Types, PacketTypes
  <2>2. PICK f \in Leftovers, r \in Rests : called' = ReadCall(packet, f, r)
    BY <1>1 DEF ReadCommand
  <2> QED  BY <2>1, <2>2, Zenon DEF CallInv
<1>2. CASE WriteCommand
  <2>1. packet \in Writes
    BY <1>2, CommandFacts DEF WriteCommand, Handles, Types, PacketTypes
  <2>2. PICK first \in Leftovers, second \in Leftovers : called' = WriteCall(packet, first, second)
    BY <1>2, Zenon DEF WriteCommand, WriteCall
  <2> QED  BY <2>1, <2>2, Zenon DEF CallInv
<1>3. CASE ~ReadCommand /\ ~WriteCommand
  <2>1. called' \in {called, None}
    BY <1>3, CallKept
  <2> QED  BY <2>1, Zenon DEF CallInv
<1> QED  BY <1>1, <1>2, <1>3

LEMMA CallInvariance == Spec => []CallInv
<1>1. Init => CallInv
  BY DEF Init, CallInv
<1>2. Types /\ CallInv /\ [Next]_vars => CallInv'
  BY CallStep
<1> QED  BY <1>1, <1>2, DeviceTypes, PTL DEF Spec

\* A callback is never given less than the command says: the offsetindex of a
\* read or a write, and the value of a write, are the front of what it gets.
CalledWithFront ==
    called # None =>
        /\ Begins(called.point, called.msg.point)
        /\ called.msg.cmd = "write" => Begins(called.value, called.msg.value)

\* Whatever the local structs held, what sdReadParse() and sdWriteParse() hand
\* over begins with the command's texts.
THEOREM CalledWithFrontHolds == PlainTexts => (Spec => []CalledWithFront)
<1> SUFFICES ASSUME PlainTexts PROVE Spec => []CalledWithFront
  OBVIOUS
<1>1. CallInv => CalledWithFront
  <2> SUFFICES ASSUME CallInv, called # None
               PROVE  /\ Begins(called.point, called.msg.point)
                      /\ called.msg.cmd = "write" => Begins(called.value, called.msg.value)
    BY DEF CalledWithFront
  <2>1. ASSUME NEW msg \in Reads, NEW f \in Leftovers, NEW r \in Rests, called = ReadCall(msg, f, r)
        PROVE  Begins(called.point, called.msg.point) /\ called.msg.cmd = "read"
    <3>1. /\ called.msg = msg /\ called.point = Str(StrNCpy(f, msg.point))
          /\ msg.point \in Points /\ msg.cmd = "read"
      BY <2>1 DEF ReadCall, Reads
    <3> QED  BY <3>1, CopiedField
  <2>2. ASSUME NEW msg \in Writes, NEW first \in Leftovers, NEW second \in Leftovers,
               called = WriteCall(msg, first, second)
        PROVE  Begins(called.point, called.msg.point) /\ Begins(called.value, called.msg.value)
    <3>1. /\ called.msg = msg /\ called.point = Str(StrNCpy(first, msg.point))
          /\ called.value = Str(StrNCpy(second, msg.value))
          /\ msg.point \in Points /\ msg.value \in Values
      BY <2>2 DEF WriteCall, Writes
    <3> QED  BY <3>1, CopiedField
  <2> QED  BY <2>1, <2>2 DEF CallInv
<1> QED  BY <1>1, CallInvariance, PTL

\* A write is carried out as it was commanded if the local structs end the texts
\* copied into them: their leftovers are the one cause of what WriteAsCommanded
\* is refuted by.
THEOREM WriteAsCommandedHolds == PlainTexts /\ EndsMet => (Spec => []WriteAsCommanded)
<1> SUFFICES ASSUME PlainTexts, EndsMet PROVE Spec => []WriteAsCommanded
  OBVIOUS
<1>1. CallInv => WriteAsCommanded
  <2> SUFFICES ASSUME CallInv, called # None, called.msg.cmd = "write"
               PROVE  called.point = called.msg.point /\ called.value = called.msg.value
    BY DEF WriteAsCommanded
  <2>1. ASSUME NEW msg \in Reads, NEW f \in Leftovers, NEW r \in Rests, called = ReadCall(msg, f, r)
        PROVE  FALSE
    <3>1. called.msg = msg /\ msg.cmd = "read"
      BY <2>1 DEF ReadCall, Reads
    <3> QED  BY <3>1
  <2>2. PICK msg \in Writes, first \in Leftovers, second \in Leftovers :
             called = WriteCall(msg, first, second)
    BY <2>1 DEF CallInv
  <2>3. /\ called.msg = msg /\ called.point = Str(StrNCpy(first, msg.point))
        /\ called.value = Str(StrNCpy(second, msg.value))
        /\ msg.point \in Points /\ msg.value \in Values
    BY <2>2 DEF WriteCall, Writes
  <2>4. /\ Str(StrNCpy(first, msg.point)) = msg.point
        /\ Str(StrNCpy(second, msg.value)) = msg.value
    BY <2>3, CopiedField DEF EndsMet
  <2> QED  BY <2>3, <2>4
<1> QED  BY <1>1, CallInvariance, PTL
-----------------------------------------------------------------------------
(* What lasts. *)

\* Every message after an append is the new one or was there before.
LEMMA AppendedFacts ==
    ASSUME NEW m \in Messages, inbox \in Seq(Messages), inbox' = Append(inbox, m)
    PROVE  \A i \in DOMAIN inbox' : inbox'[i] = m \/ (i \in DOMAIN inbox /\ inbox'[i] = inbox[i])
<1>1. /\ DOMAIN inbox' = 1..(Len(inbox) + 1) /\ DOMAIN inbox = 1..Len(inbox) /\ Len(inbox) \in Nat
      /\ \A i \in 1..Len(inbox) : inbox'[i] = inbox[i]
      /\ inbox'[Len(inbox) + 1] = m
  OBVIOUS
<1>2. \A i \in DOMAIN inbox' : i = Len(inbox) + 1 \/ i \in DOMAIN inbox
  BY <1>1
<1> QED  BY <1>1, <1>2

\* The message taken was in the inbox, and so was every one that remains.
LEMMA TakenFacts ==
    ASSUME inbox \in Seq(Messages), inbox # <<>>
    PROVE  /\ 1 \in DOMAIN inbox /\ Head(inbox) = inbox[1]
           /\ \A i \in DOMAIN Tail(inbox) : i + 1 \in DOMAIN inbox /\ Tail(inbox)[i] = inbox[i + 1]
  OBVIOUS

\* The messages after which the device resets or updates itself.
IsEnd(m) == m.type \in {"redirect", "restart", "wificlear", "update"}

\* A registered device in the rounds of loop(), that nothing on its way will end.
Steady ==
    /\ calm /\ wifi /\ Serving
    /\ pc \in {"run", "wifi", "check", "poll", "handle", "subread", "subwrite", "ack", "app"}
    /\ \A i \in DOMAIN inbox : ~IsEnd(inbox[i])
    /\ pc = "handle" => ~IsEnd(packet)

LEMMA SteadyStep ==
    ASSUME Types, Steady, [Next]_vars
    PROVE  Steady'
<1>0. inbox \in Seq(Messages)
  BY DEF Types, CloudTypes
<1>1. CASE RunStart \/ WifiPoll \/ RunGoesOn \/ PollNothing
  BY <1>1 DEF Steady, Serving, RunStart, WifiPoll, RunGoesOn, PollNothing, ramVars, cloudVars, envVars
<1>2. CASE Receive
  <2>1. /\ inbox # <<>> /\ packet' = Head(inbox) /\ inbox' = Tail(inbox) /\ pc' = "handle"
        /\ UNCHANGED <<subOk, session, calm, wifi>>
    BY <1>2 DEF Receive, ramVars, envVars
  <2>2. ~IsEnd(packet') /\ \A i \in DOMAIN inbox' : ~IsEnd(inbox'[i])
    BY <1>0, <2>1, TakenFacts DEF Steady
  <2> QED  BY <2>1, <2>2 DEF Steady, Serving, IsEnd
<1>3. CASE AckuseridOk
  BY <1>3 DEF Steady, Serving, AckuseridOk, envVars
<1>4. CASE SubscribeRead \/ SubscribeWrite \/ Ignored \/ ReadCommand \/ Ack \/ WriteCommand
  BY <1>4 DEF Steady, Serving, SubscribeRead, SubscribeWrite, Ignored, ReadCommand, Ack, WriteCommand,
              ramVars, cloudVars, envVars
<1>5. CASE AppReports \/ AppWaits
  BY <1>5 DEF Steady, Serving, AppReports, AppWaits, cloudVars, envVars
<1>6. CASE CloudAnswers \/ CloudCommands
  <2>1. PICK m \in Messages : inbox' = Append(inbox, m) /\ ~IsEnd(m)
    <3>1. CASE CloudAnswers
      <4>1. PICK m \in Replies : inbox' = Append(inbox, m) /\ (calm => m.type = "ok")
        BY <3>1 DEF CloudAnswers
      <4> QED  BY <4>1 DEF Steady, IsEnd, Messages
    <3>2. CASE CloudCommands
      <4>1. PICK m \in Commands : inbox' = Append(inbox, m) /\ (calm => m.type \in {"data", "other"})
        BY <3>2 DEF CloudCommands
      <4> QED  BY <4>1 DEF Steady, IsEnd, Messages
    <3> QED  BY <1>6, <3>1, <3>2
  <2>2. \A i \in DOMAIN inbox' : ~IsEnd(inbox'[i])
    BY <1>0, <2>1, AppendedFacts DEF Steady
  <2>3. UNCHANGED <<pc, packet, subOk, session, calm, wifi>>
    BY <1>6 DEF CloudAnswers, CloudCommands, ramVars, envVars
  <2> QED  BY <2>2, <2>3 DEF Steady, Serving, IsEnd
<1>7. CASE WifiJoins \/ Tick \/ UNCHANGED vars
  BY <1>7 DEF Steady, Serving, WifiJoins, Tick, ramVars, cloudVars, envVars, vars
<1>8. ~(Boot \/ RunConnects \/ RunFailsToConnect \/ AckuseridRedirect \/ Restart \/ WifiClear \/ Update)
  BY DEF Steady, Serving, IsEnd, Boot, RunConnects, RunFailsToConnect, AckuseridRedirect, Restart,
         WifiClear, Update, Handles
<1>9. ~(UpdateFails \/ UpdateEnds \/ UpdateReports \/ ApStarts \/ ApWindowOver \/ ApAccepts \/ ApForm
        \/ ApAbandon \/ ApClientDone \/ WifiLost \/ SessionDrops \/ CalmComes)
  BY DEF Steady, UpdateFails, UpdateEnds, UpdateReports, ApStarts, ApWindowOver, ApAccepts, ApForm,
         ApAbandon, ApClientDone, WifiLost, SessionDrops, CalmComes
<1> QED  BY <1>1, <1>2, <1>3, <1>4, <1>5, <1>6, <1>7, <1>8, <1>9 DEF Next, Program

\* Once WiFi, network and cloud no longer fail, a registered device that is not
\* about to be ended stays in service for ever, whatever it is commanded: the
\* safety half of EventuallyReports.
THEOREM DeviceServiceLasts == Spec => [](Steady => []Serving)
<1>1. Types /\ Steady /\ [Next]_vars => Steady'
  BY SteadyStep
<1>2. Steady => Serving
  BY DEF Steady
<1> QED  BY <1>1, <1>2, DeviceTypes, PTL DEF Spec

LEMMA DeviceMissedStep ==
    ASSUME Types, Missed, [Next]_vars, session' # "down"
    PROVE  Missed'
<1>0. inbox \in Seq(Messages)
  BY DEF Types, CloudTypes
<1>1. ~SessionEnds
  BY DEF SessionEnds
<1>2. CASE Receive
  <2>1. /\ inbox # <<>> /\ packet' = Head(inbox) /\ inbox' = Tail(inbox)
        /\ UNCHANGED <<subOk, session, asked>>
    BY <1>2 DEF Receive, ramVars
  <2>2. packet'.cmd # "ackuserid" /\ \A i \in DOMAIN inbox' : inbox'[i].cmd # "ackuserid"
    BY <1>0, <2>1, TakenFacts DEF Missed
  <2> QED  BY <2>1, <2>2 DEF Missed
<1>3. CASE CloudCommands
  <2>1. PICK m \in Commands : inbox' = Append(inbox, m)
    BY <1>3 DEF CloudCommands
  <2>2. m \in Messages /\ m.cmd # "ackuserid"
    BY DEF Messages, Commands, Reads, Writes, Functions
  <2>3. \A i \in DOMAIN inbox' : inbox'[i].cmd # "ackuserid"
    BY <1>0, <2>1, <2>2, AppendedFacts DEF Missed
  <2>4. UNCHANGED <<pc, packet, subOk, session, asked>>
    BY <1>3 DEF CloudCommands, ramVars
  <2> QED  BY <2>3, <2>4 DEF Missed
<1>4. CASE Boot \/ RunStart \/ WifiPoll \/ RunGoesOn \/ PollNothing \/ SubscribeRead \/ SubscribeWrite
  <2>1. UNCHANGED <<session, asked, inbox>> /\ pc' # "handle"
    BY <1>4 DEF Boot, RunStart, WifiPoll, RunGoesOn, PollNothing, SubscribeRead, SubscribeWrite, cloudVars
  <2>2. ~subOk'
    BY <1>4, Zenon DEF Missed, Boot, RunStart, WifiPoll, RunGoesOn, PollNothing, SubscribeRead,
                       SubscribeWrite, ramVars
  <2> QED  BY <2>1, <2>2 DEF Missed
<1>5. CASE Ignored \/ ReadCommand \/ Ack \/ WriteCommand \/ Update \/ UpdateFails \/ UpdateReports
  BY <1>5 DEF Missed, Ignored, ReadCommand, Ack, WriteCommand, Update, UpdateFails, UpdateReports,
              ramVars, cloudVars
<1>6. CASE AppReports \/ AppWaits \/ ApAccepts \/ ApForm \/ ApAbandon
  BY <1>6 DEF Missed, AppReports, AppWaits, ApAccepts, ApForm, ApAbandon, ramVars, cloudVars
<1>7. CASE ApClientDone
  BY <1>1, <1>7 DEF Missed, ApClientDone, Reset, ramVars, cloudVars
<1>8. CASE WifiJoins \/ WifiLost \/ Tick \/ CalmComes \/ UNCHANGED vars
  BY <1>8 DEF Missed, WifiJoins, WifiLost, Tick, CalmComes, ramVars, cloudVars, vars
<1>9. ~(AckuseridRedirect \/ Restart \/ WifiClear \/ UpdateEnds \/ ApStarts \/ ApWindowOver \/ SessionDrops)
  BY <1>1 DEF AckuseridRedirect, Restart, WifiClear, UpdateEnds, ApStarts, ApWindowOver, SessionDrops, Reset
<1>10. ~(RunConnects \/ RunFailsToConnect \/ CloudAnswers)
  BY DEF Missed, RunConnects, RunFailsToConnect, CloudAnswers
<1>11. ~AckuseridOk
  <2> SUFFICES ASSUME AckuseridOk PROVE FALSE
    OBVIOUS
  <2>1. pc = "handle" /\ packet \in Messages /\ TypeOf(packet) = "ackuserid" /\ packet.type = "ok"
    BY DEF AckuseridOk, Handles, Types, PacketTypes
  <2>2. packet.cmd = "ackuserid"
    BY <2>1, MessageFacts
  <2> QED  BY <2>1, <2>2 DEF Missed
<1> QED  BY <1>2, <1>3, <1>4, <1>5, <1>6, <1>7, <1>8, <1>9, <1>10, <1>11 DEF Next, Program

\* Only the end of its session frees a device that missed its registration:
\* why EventuallyReports has to except it.
THEOREM DeviceMissedForGood == Spec => [][Missed => Missed' \/ session' = "down"]_vars
<1>1. Types /\ [Next]_vars => [Missed => Missed' \/ session' = "down"]_vars
  BY DeviceMissedStep
<1> QED  BY <1>1, DeviceTypes, PTL DEF Spec
=============================================================================
