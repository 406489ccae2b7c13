---------------------------- MODULE SingleDevice ----------------------------
(***************************************************************************)
(* A device without sub-devices (singleDevLib/QiaqiaMqttSingleDevice.cpp   *)
(* and its sketch): one thread runs sdRun() and the sketch's part of       *)
(* loop() for ever, and pc says where it is.  A message is handled in the  *)
(* packet buffer of PubSubClient, which every publish or subscribe of the  *)
(* handler overwrites; what outlives the message is copied into fields     *)
(* with strncpy().  WiFi, the socket, the cloud and the user of AP mode    *)
(* act between any two steps.                                              *)
(***************************************************************************)
EXTENDS CString, TopicCodec

CONSTANTS
    Dev, Ep,       \* the texts of the devindex and of EPINDEX
    Userids,       \* userids the cloud may give the device, texts
    FieldSize,     \* cells of a field, beyond any text of the instance
    Leftovers,     \* what a field of a local struct may hold before its copy
    Rests,         \* the same for devack, as texts between slashes
    Sources,       \* userids that may send commands; an empty one among them
    Askers,        \* who a read answers: [dev, off, ep]
    Points, Values,
    None,          \* nothing; the packet buffer after it was overwritten
    WifiPolls,     \* polls of sdWifiConfig() before it gives up (40)
    RemoteWindow,  \* ticks of failing to connect before AP mode (60 s)
    SendWindow,    \* ticks between the reports of the sketch (3 s)
    ApWindow,      \* ticks for somebody to come to AP mode (120 s)
    ApLongWindow,  \* ticks once a page was served (600 s)
    InboxSize      \* messages that may be on their way

Chars == UNION {{u[i] : i \in DOMAIN u} : u \in Userids}

ASSUME TextAssumption ==
    /\ FieldSize \in Nat \ {0} /\ Userids \subseteq Texts(Chars, FieldSize) \ {<<>>}
    /\ Nul \notin Chars
    /\ \A f \in Leftovers : Len(f) = FieldSize
    /\ Rests \subseteq Seq(Seq(STRING)) \ {<<>>}
    /\ Sources \subseteq Seq(STRING) /\ Points \subseteq Seq(STRING)
    /\ Askers \subseteq [dev : Seq(STRING) \ {<<>>}, off : Seq(STRING) \ {<<>>}, ep : Seq(STRING)]
ASSUME WindowAssumption ==
    /\ WifiPolls \in Nat \ {0} /\ RemoteWindow \in Nat /\ SendWindow \in Nat
    /\ ApWindow \in Nat /\ ApLongWindow \in Nat /\ ApWindow <= ApLongWindow
ASSUME InboxAssumption == InboxSize \in Nat \ {0}

VARIABLES
    pc,             \* where the program is
    polls,          \* i of sdWifiConfig()
    subOk,          \* m_SdInfo.sd_sub_successed
    userid,         \* the field m_SdInfo.userid
    remoteAge,      \* age of RemoteConfigStart; -1 if RemoteFirstTimeState = 1
    sendAge,        \* age of SENDConfigStart; -1 if SENDFirstTimeState = 1
    packet,         \* the message being handled, while the buffer holds it
    apAge,          \* age of apConfigStart
    isLoop,         \* IsLoop = 1: AP mode served a page
    resetflag,      \* resetflag # 0: AP mode will reset after this client
    wifi,           \* WiFi.status() == WL_CONNECTED
    configured,     \* the configuration names a WiFi network
    session,        \* pClient->connected()
    subs,           \* the subscriptions of this session at the broker
    asked,          \* a registration the cloud has not answered
    inbox,          \* messages on their way, oldest first
    granted,        \* the userid granted in this session
    longest,        \* length of the longest userid granted since the reset
    sent,           \* the userid of the last report
    called,         \* the callback that runs: the message and its arguments
    acked,          \* the acknowledgement it published
    overrun,        \* kinds of topics that did not fit their buffer
    calm            \* from now on WiFi, network and cloud do not fail

ramVars == <<polls, subOk, userid, remoteAge, sendAge, longest>>
apVars == <<apAge, isLoop, resetflag>>
cloudVars == <<session, subs, asked, inbox, granted>>
outVars == <<sent, called, acked, overrun>>
envVars == <<wifi, configured, calm>>
vars == <<pc, packet, ramVars, apVars, cloudVars, outVars, envVars>>

Ackuserid == <<<<>>, "ackuserid">>
Replies ==
    [cmd : {"ackuserid"}, type : {"ok"}, src : {<<"0">>}, user : Userids]
        \cup [cmd : {"ackuserid"}, type : {"redirect", "malformed"}, src : {<<"0">>}]
Reads == [cmd : {"read"}, type : {"data"}, src : Sources, from : Askers, point : Points]
Writes == [cmd : {"write"}, type : {"data"}, src : Sources, point : Points, value : Values]
Functions ==
    [cmd : {"read"}, type : {"other"}, src : Sources]
        \cup [cmd : {"write"}, type : {"restart", "update", "wificlear", "other"}, src : Sources]
Commands == Reads \cup Writes \cup Functions
Messages == Replies \cup Commands

\* The callback of a read: the message, the point it gets and devack, which is
\* copied in front of rest.
ReadCall(msg, field, rest) ==
    [msg |-> msg, point |-> Str(StrNCpy(field, msg.point)),
     devack |-> Followed(AckEncode(msg.src, msg.from, msg.point), rest)]

ASSUME NoneAssumption ==
    None \notin Userids /\ \A msg \in Reads, f \in Leftovers, r \in Rests : ReadCall(msg, f, r) # None

-----------------------------------------------------------------------------
(* Pieces of the handlers. *)

\* What the session had on its way is lost and the broker forgets it.
SessionEnds ==
    /\ session' = "down" /\ subs' = {} /\ asked' = FALSE
    /\ inbox' = <<>> /\ granted' = None

\* PRCMSOCReset(): RAM, radio and callback are gone.
Reset ==
    /\ pc' = "boot" /\ SessionEnds /\ wifi' = FALSE
    /\ packet' = None /\ called' = None /\ acked' = None
    /\ UNCHANGED <<ramVars, apVars, sent, overrun, calm>>

SubOkOnReconnect_Kept == subOk

\* sdRun() forgets the registration before it connects again.
SubOkOnReconnect == FALSE

UseridCopy_LastMissing(user) == StrNCpy(userid, SubSeq(user, 1, Len(user) - 1))

\* The copy of a granted userid over the one before.
UseridCopy(user) == StrNCpy(userid, user)

SubUser_Packet == IF packet = None THEN <<>> ELSE packet.user

\* The userid sdRWSub() puts in both topics.
SubUser == Str(userid)

\* A topic of that length is printed.
Prints(kind, length) == overrun' = IF Fits(kind, length) THEN overrun ELSE overrun \cup {kind}

\* publish() and subscribe() build their packet in the buffer the message is
\* in, if there is a session.
PacketAfterSend == IF session = "up" THEN None ELSE packet

\* sdValueChange() and sdUpdateStatus(): dropped before the registration, and
\* by publish() without a session.
Report(kind, length) ==
    IF subOk
    THEN /\ Prints(kind, length)
         /\ sent' = IF session = "up" THEN Str(userid) ELSE sent
         /\ packet' = PacketAfterSend
    ELSE UNCHANGED <<overrun, sent, packet>>

\* The test of the sketch.
SendDue == sendAge > SendWindow

Init ==
    /\ pc = "boot" /\ polls = 0 /\ subOk = FALSE /\ userid = Zeros(FieldSize)
    /\ remoteAge = -1 /\ sendAge = -1 /\ longest = 0 /\ packet = None
    /\ apAge = 0 /\ isLoop = FALSE /\ resetflag = 0
    /\ wifi = FALSE /\ configured \in BOOLEAN /\ calm = FALSE
    /\ session = "down" /\ subs = {} /\ asked = FALSE /\ inbox = <<>> /\ granted = None
    /\ sent = None /\ called = None /\ acked = None /\ overrun = {}

-----------------------------------------------------------------------------
(* sdInit() and sdRun() *)

\* The constructors and sdInit(), the globals of the sketch included.
Boot ==
    /\ pc = "boot"
    /\ pc' = "run" /\ polls' = 0 /\ subOk' = FALSE /\ userid' = Zeros(FieldSize)
    /\ remoteAge' = -1 /\ sendAge' = -1 /\ longest' = 0
    /\ apAge' = 0 /\ isLoop' = FALSE /\ resetflag' = 0
    /\ UNCHANGED <<packet, cloudVars, outVars, envVars>>

\* sdRun() asks for WiFi; without it sdWifiConfig() begins to poll.
RunStart ==
    /\ pc = "run"
    /\ IF wifi THEN pc' = "check" /\ UNCHANGED polls ELSE pc' = "wifi" /\ polls' = 0
    /\ UNCHANGED <<packet, subOk, userid, remoteAge, sendAge, longest, apVars,
                   cloudVars, outVars, envVars>>

LastPoll_OneMore(n) == n > WifiPolls

\* The loop of sdWifiConfig() is over after n polls.
LastPoll(n) == n >= WifiPolls

\* One poll; after the last the device turns to AP mode.
WifiPoll ==
    /\ pc = "wifi"
    /\ IF wifi
       THEN pc' = "check" /\ UNCHANGED polls
       ELSE /\ polls' = polls + 1
            /\ pc' = IF LastPoll(polls + 1) THEN "apstart" ELSE "wifi"
    /\ UNCHANGED <<packet, subOk, userid, remoteAge, sendAge, longest, apVars,
                   cloudVars, outVars, envVars>>

\* sdRun() reads the WiFi status again, and with a session goes on to loop().
RunGoesOn ==
    /\ pc = "check"
    /\ \/ ~wifi /\ pc' = "app"
       \/ wifi /\ session = "up" /\ pc' = "poll"
    /\ UNCHANGED <<packet, ramVars, apVars, cloudVars, outVars, envVars>>

SubsAfterConnect_None == {}

\* sdAckuseridSub()
SubsAfterConnect == {Ackuserid}

RegisterPrints ==
    overrun' = overrun
        \cup (IF Fits("ackuserid", AckuseridLength(Ep, Dev)) THEN {} ELSE {"ackuserid"})
        \cup (IF Fits("register", RegisterLength(Ep, Dev)) THEN {} ELSE {"register"})

\* connect() succeeds; ackuserid is subscribed and the registration published,
\* once in the session.
RunConnects ==
    /\ pc = "check" /\ wifi /\ session = "down"
    /\ subOk' = SubOkOnReconnect
    /\ remoteAge' = -1
    /\ session' = "up" /\ subs' = SubsAfterConnect /\ asked' = TRUE /\ granted' = None
    /\ RegisterPrints
    /\ pc' = "poll"
    /\ UNCHANGED <<packet, polls, userid, sendAge, longest, apVars, inbox,
                   sent, called, acked, envVars>>

\* connect() fails.  The window opens at the first failure.
RunFailsToConnect ==
    /\ pc = "check" /\ wifi /\ session = "down" /\ ~calm
    /\ subOk' = SubOkOnReconnect
    /\ remoteAge' = IF remoteAge = -1 THEN 0 ELSE remoteAge
    /\ pc' = IF remoteAge > RemoteWindow THEN "apstart" ELSE "poll"
    /\ UNCHANGED <<packet, polls, userid, sendAge, longest, apVars, cloudVars,
                   outVars, envVars>>

-----------------------------------------------------------------------------
(* pClient->loop(): one message at most, handed to sdMQTTDataParse(). *)

PollNothing ==
    /\ pc = "poll" /\ inbox = <<>>
    /\ pc' = "app"
    /\ UNCHANGED <<packet, ramVars, apVars, cloudVars, outVars, envVars>>

\* sdMQTTRecv(): the message is in the packet buffer.
Receive ==
    /\ pc = "poll" /\ inbox # <<>>
    /\ packet' = Head(inbox) /\ inbox' = Tail(inbox)
    /\ pc' = "handle"
    /\ UNCHANGED <<ramVars, apVars, session, subs, asked, granted, outVars, envVars>>

\* The message is of the kind that sdMQTTDataParse() switches on; but for a
\* registration's answer the device has to be registered.
Handles(cmd, type) ==
    /\ pc = "handle" /\ TypeOf(packet) = cmd /\ packet.type = type
    /\ cmd # "ackuserid" => subOk

\* sdPayloadAckuseridParse(), cmd "ok"
AckuseridOk ==
    /\ Handles("ackuserid", "ok")
    /\ userid' = UseridCopy(packet.user)
    /\ subOk' = TRUE
    /\ granted' = packet.user
    /\ longest' = IF Len(packet.user) > longest THEN Len(packet.user) ELSE longest
    /\ pc' = "subread"
    /\ UNCHANGED <<packet, polls, remoteAge, sendAge, apVars, session, subs, asked,
                   inbox, outVars, envVars>>

\* The two lines of sdRWSub(); subscribe() does nothing without a session.
SubscribeRead ==
    /\ pc = "subread"
    /\ subs' = IF session = "up" THEN subs \cup {<<SubUser, "read">>} ELSE subs
    /\ Prints("read", ReadLength(Dev, SubUser))
    /\ packet' = PacketAfterSend
    /\ pc' = "subwrite"
    /\ UNCHANGED <<ramVars, apVars, session, asked, inbox, granted, sent, called, acked, envVars>>

SubscribeWrite ==
    /\ pc = "subwrite"
    /\ subs' = IF session = "up" THEN subs \cup {<<SubUser, "write">>} ELSE subs
    /\ Prints("write", WriteLength(Dev, SubUser))
    /\ packet' = None
    /\ pc' = "app"
    /\ UNCHANGED <<ramVars, apVars, session, asked, inbox, granted, sent, called, acked, envVars>>

\* cmd "redirect": the new server goes to the flash (ConfigStore), then a reset.
AckuseridRedirect ==
    /\ Handles("ackuserid", "redirect")
    /\ Reset /\ UNCHANGED configured

\* What sdMQTTDataParse() leaves without an effect: an answer that is not JSON,
\* a command with an empty level or for a device that is not registered, and a
\* function that is commented out.
Ignored ==
    /\ pc = "handle"
    /\ \/ Handles("ackuserid", "malformed")
       \/ Handles("read", "other") \/ Handles("write", "other")
       \/ TypeOf(packet) = "none"
       \/ packet.cmd # "ackuserid" /\ ~subOk
    /\ pc' = "app" /\ packet' = None
    /\ UNCHANGED <<ramVars, apVars, cloudVars, outVars, envVars>>

\* A data point is read: the decoded field and devack go to the callback.
ReadCommand ==
    /\ Handles("read", "data")
    /\ \E field \in Leftovers, rest \in Rests : called' = ReadCall(packet, field, rest)
    /\ Prints("devack", AckCharacters(AckEncode(packet.src, packet.from, packet.point)))
    /\ pc' = "ack"
    /\ UNCHANGED <<packet, ramVars, apVars, cloudVars, sent, acked, envVars>>

\* The sketch's readCallback() ends in sdAck().
Ack ==
    /\ pc = "ack"
    /\ LET to == AckDecode(called.devack)
       IN  /\ acked' = IF session = "up" THEN to ELSE acked
           /\ Prints("ack", AckLength(Str(userid), to))
    /\ packet' = None
    /\ pc' = "app"
    /\ UNCHANGED <<ramVars, apVars, cloudVars, sent, called, envVars>>

\* A data point is written: the two decoded fields go to the callback.
WriteCommand ==
    /\ Handles("write", "data")
    /\ \E first \in Leftovers, second \in Leftovers :
          called' = [msg |-> packet,
                     point |-> Str(StrNCpy(first, packet.point)),
                     value |-> Str(StrNCpy(second, packet.value))]
    /\ pc' = "app" /\ packet' = None
    /\ UNCHANGED <<ramVars, apVars, cloudVars, sent, acked, overrun, envVars>>

\* 1003
Restart ==
    /\ Handles("write", "restart")
    /\ Reset /\ UNCHANGED configured

\* 1009: network and password are cleared in the flash.
WifiClear ==
    /\ Handles("write", "wificlear")
    /\ Reset /\ configured' = FALSE

\* 1005: the parameters are copied out of the packet and sdUpdateFirmware()
\* (FirmwareUpdate) begins.
Update ==
    /\ Handles("write", "update")
    /\ pc' = "update"
    /\ UNCHANGED <<packet, ramVars, apVars, cloudVars, outVars, envVars>>

UpdateReports ==
    /\ pc = "update"
    /\ Report("updatestate", UpdateStatusLength(Str(userid), Ep, Dev))
    /\ UNCHANGED <<pc, ramVars, apVars, cloudVars, called, acked, envVars>>

\* An early failure returns to sdMQTTDataParse().
UpdateFails ==
    /\ pc = "update"
    /\ pc' = "app" /\ packet' = None
    /\ UNCHANGED <<ramVars, apVars, cloudVars, outVars, envVars>>

UpdateEnds ==
    /\ pc = "update"
    /\ Reset /\ UNCHANGED configured

-----------------------------------------------------------------------------
(* The sketch's part of loop(). *)

\* Three seconds have passed: the sketch reports, and starts its clock anew in
\* the next round.
AppReports ==
    /\ pc = "app" /\ SendDue
    /\ Report("valuechange", ValuechangeLength(Str(userid), Ep, Dev, <<"1">>))
    /\ sendAge' = -1
    /\ called' = None /\ acked' = None
    /\ pc' = "run"
    /\ UNCHANGED <<polls, subOk, userid, remoteAge, longest, apVars, cloudVars, envVars>>

AppWaits ==
    /\ pc = "app" /\ ~SendDue
    /\ sendAge' = IF sendAge = -1 THEN 0 ELSE sendAge
    /\ called' = None /\ acked' = None
    /\ pc' = "run"
    /\ UNCHANGED <<packet, polls, subOk, userid, remoteAge, longest, apVars, cloudVars,
                   sent, overrun, envVars>>

-----------------------------------------------------------------------------
(* sdAPModeConfig(); how it reads a request is in ApMode. *)

\* WiFi.beginNetwork(): the radio leaves its network.
ApStarts ==
    /\ pc = "apstart"
    /\ pc' = "ap"
    /\ apAge' = 0 /\ isLoop' = FALSE /\ resetflag' = 0
    /\ wifi' = FALSE /\ SessionEnds
    /\ UNCHANGED <<packet, ramVars, outVars, configured, calm>>

\* The tests at the head of the outer loop.
ApOver == (~isLoop /\ apAge > ApWindow) \/ apAge > ApLongWindow

ApWindowOver ==
    /\ pc = "ap" /\ ApOver
    /\ Reset /\ UNCHANGED configured

\* MyServer.available() returns a client.
ApAccepts ==
    /\ pc = "ap" /\ ~ApOver
    /\ pc' = "client" /\ resetflag' = 0
    /\ UNCHANGED <<packet, ramVars, apAge, isLoop, cloudVars, outVars, envVars>>

\* The form: the file is deleted and written anew, or cannot be created.
ApForm ==
    /\ pc = "client" /\ resetflag = 0
    /\ resetflag' \in {1, 3} /\ configured' = (resetflag' = 1)
    /\ UNCHANGED <<pc, packet, ramVars, apAge, isLoop, cloudVars, outVars, wifi, calm>>

ApAbandon ==
    /\ pc = "client" /\ resetflag = 0
    /\ resetflag' = 2
    /\ UNCHANGED <<pc, packet, ramVars, apAge, isLoop, cloudVars, outVars, envVars>>

\* The client is gone, or has its page: then, if the request asked for it,
\* the reset.
ApClientDone ==
    /\ pc = "client"
    /\ IF resetflag # 0
       THEN Reset /\ UNCHANGED configured
       ELSE /\ pc' = "ap" /\ isLoop' \in {isLoop, TRUE}
            /\ UNCHANGED <<packet, ramVars, apAge, resetflag, cloudVars, outVars, envVars>>

-----------------------------------------------------------------------------
(* WiFi, the network, the cloud and the clock. *)

WifiJoins ==
    /\ ~wifi /\ configured /\ pc \notin {"boot", "apstart", "ap", "client"}
    /\ wifi' = TRUE
    /\ UNCHANGED <<pc, packet, ramVars, apVars, cloudVars, outVars, configured, calm>>

WifiLost ==
    /\ wifi /\ ~calm
    /\ wifi' = FALSE
    /\ UNCHANGED <<pc, packet, ramVars, apVars, cloudVars, outVars, configured, calm>>

SessionDrops ==
    /\ session = "up" /\ ~calm
    /\ SessionEnds
    /\ UNCHANGED <<pc, packet, ramVars, apVars, outVars, envVars>>

\* The cloud grants the registration with a userid, sends the device to another
\* server, or its answer arrives unreadable.
CloudAnswers ==
    /\ asked /\ Ackuserid \in subs /\ Len(inbox) < InboxSize
    /\ \E reply \in Replies :
          /\ calm => reply.type = "ok"
          /\ inbox' = Append(inbox, reply)
    /\ asked' = FALSE
    /\ UNCHANGED <<pc, packet, ramVars, apVars, session, subs, granted, outVars, envVars>>

\* Somebody commands the device of the userid it was granted.
CloudCommands ==
    /\ Len(inbox) < InboxSize
    /\ \E msg \in Commands :
          /\ <<granted, msg.cmd>> \in subs
          /\ calm => msg.type \in {"data", "other"}
          /\ inbox' = Append(inbox, msg)
    /\ UNCHANGED <<pc, packet, ramVars, apVars, session, subs, asked, granted, outVars, envVars>>

Older(age, window) == IF age = -1 \/ age > window THEN age ELSE age + 1

Tick ==
    /\ pc # "boot"
    /\ remoteAge' = Older(remoteAge, RemoteWindow)
    /\ sendAge' = Older(sendAge, SendWindow)
    /\ apAge' = IF pc \in {"ap", "client"} THEN Older(apAge, ApLongWindow) ELSE apAge
    /\ UNCHANGED <<pc, packet, polls, subOk, userid, longest, isLoop, resetflag,
                   cloudVars, outVars, envVars>>

CalmComes ==
    /\ ~calm /\ calm' = TRUE
    /\ UNCHANGED <<pc, packet, ramVars, apVars, cloudVars, outVars, wifi, configured>>

Program ==
    \/ Boot \/ RunStart \/ WifiPoll \/ RunGoesOn \/ RunConnects
    \/ PollNothing \/ Receive \/ AckuseridOk \/ SubscribeRead \/ SubscribeWrite
    \/ AckuseridRedirect \/ Ignored \/ ReadCommand \/ Ack \/ WriteCommand
    \/ Restart \/ WifiClear \/ Update \/ UpdateFails \/ UpdateEnds
    \/ AppReports \/ AppWaits \/ ApStarts \/ ApWindowOver

Next ==
    \/ Program \/ RunFailsToConnect \/ UpdateReports
    \/ ApAccepts \/ ApForm \/ ApAbandon \/ ApClientDone
    \/ WifiJoins \/ WifiLost \/ SessionDrops
    \/ CloudAnswers \/ CloudCommands \/ Tick \/ CalmComes

Spec == Init /\ [][Next]_vars

\* The program runs on, and time passes.  A network in range is joined when it
\* is tried for ever, the cloud answers in the end, and a user visits an AP mode
\* that comes for ever and gets a form saved.  Nothing makes a client leave.
Fairness ==
    /\ WF_vars(Program) /\ WF_vars(Tick)
    /\ SF_vars(WifiJoins) /\ SF_vars(CloudAnswers)
    /\ SF_vars(ApAccepts) /\ SF_vars(ApForm /\ configured')

FairSpec == Spec /\ Fairness

-----------------------------------------------------------------------------
(* What a device must achieve. *)

Serving == session = "up" /\ subOk

\* sdRun() keeps its counts and clocks in their ranges and the fields their size.
TypeOK ==
    /\ pc \in {"boot", "run", "wifi", "check", "poll", "handle", "subread", "subwrite",
               "ack", "update", "app", "apstart", "ap", "client"}
    /\ polls \in 0..WifiPolls
    /\ subOk \in BOOLEAN
    /\ userid \in [1..FieldSize -> Chars \cup {Nul}]
    /\ longest \in 0..FieldSize
    /\ remoteAge \in -1..(RemoteWindow + 1) /\ sendAge \in -1..(SendWindow + 1)
    /\ packet \in Messages \cup {None}
    /\ apAge \in 0..(ApLongWindow + 1) /\ isLoop \in BOOLEAN /\ resetflag \in 0..3
    /\ wifi \in BOOLEAN /\ configured \in BOOLEAN /\ calm \in BOOLEAN
    /\ session \in {"up", "down"} /\ asked \in BOOLEAN
    /\ inbox \in Seq(Messages) /\ Len(inbox) <= InboxSize
    /\ granted \in Userids \cup {None}
    /\ overrun \subseteq DOMAIN Room

\* A registered device is reachable: whatever the handler's own subscribes did
\* to the message it was reading, and whenever the session dropped, the broker
\* holds both topics of the userid the device goes by.
ServingReachable ==
    Serving /\ pc \notin {"subread", "subwrite"} =>
        {<<Str(userid), "read">>, <<Str(userid), "write">>} \subseteq subs

\* A registered device goes by the userid of this session's grant as long as no
\* longer one was granted since the reset, although the copy ends no text; after
\* a longer one it goes by another, for the end of that one remains.
UseridExact == Serving => (Str(userid) = granted <=> Len(granted) >= longest)

\* With a devindex as the form page of AP mode wants it, 24 characters, and the
\* epindex of the sketch, no topic runs over its buffer but the two of the
\* registration: not those with a userid, whatever was granted and remained,
\* nor an answer, whoever asked.
ServiceTopicsFit == overrun \subseteq {"ackuserid", "register"}

\* An answer to a read goes to who asked and names the point asked, through
\* the data the application hands back, whatever follows them in their array.
AckAnswersRead ==
    [][acked' # acked /\ acked' # None =>
          /\ called # None /\ called.msg.cmd = "read"
          /\ acked' = [user |-> called.msg.src, dev |-> called.msg.from.dev,
                       off |-> called.msg.from.off, point |-> called.msg.point,
                       ep |-> called.msg.from.ep]]_vars

\* An answer that cannot be read leaves the device connected, not registered,
\* and its registration is never repeated.
Missed ==
    /\ session = "up" /\ ~subOk /\ ~asked
    /\ \A i \in DOMAIN inbox : inbox[i].cmd # "ackuserid"
    /\ pc = "handle" => packet.cmd # "ackuserid" \/ packet.type = "malformed"

\* Once WiFi, network and cloud no longer fail, the device reports again and
\* again, from wherever it was, unless it missed its registration, or a client
\* of AP mode stays for ever (ApMode).
EventuallyReports ==
    <>[]calm /\ ~<>[]Missed /\ ~<>[](pc = "client") => []<><<AppReports /\ Serving>>_vars

\* The device is such as the cloud may rely on (DeviceLink), with its userid
\* in the place of a sub-device.
LinkState == IF session = "down" THEN "off" ELSE IF subOk THEN "serving" ELSE "linked"
LinkGrant == IF Serving THEN {Str(userid)} ELSE {}

Link == INSTANCE DeviceLink WITH
    Rows <- Seq(Chars), NoMsg <- None, link <- LinkState, grant <- LinkGrant

LinkSpec == Link!Spec

(* What the repository says of it, and the code does not do. *)

\* doc "2_QQC_MQTT Protocol V1.0", 2.3.3: the value of a write is written to
\* the offsetindex of its topic.
WriteAsCommanded ==
    called # None /\ called.msg.cmd = "write" =>
        called.point = called.msg.point /\ called.value = called.msg.value
=============================================================================
