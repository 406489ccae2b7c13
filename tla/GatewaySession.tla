--------------------------- MODULE GatewaySession ---------------------------
(***************************************************************************)
(* The gateway between power-up and the cloud                              *)
(* (gatewayLib/QiaqiaMqttGateway.cpp): gwRun() keeps WiFi and the MQTT     *)
(* session, registers the gateway, and hands the commands of the cloud to  *)
(* the application; the application publishes for its sub-devices.         *)
(*                                                                         *)
(* One thread runs everything, so pc says where it is: the parts of        *)
(* gwRun() in their order, then the application's own part of loop().      *)
(* WiFi, the socket and the cloud change between any two of its steps.     *)
(* MqttClient models the session itself; here it is up or down.            *)
(***************************************************************************)
EXTENDS CString, FiniteSets

CONSTANTS
    GW,               \* the gateway's own devindex
    Rows,             \* what the cloud tells of a sub-device: [dev, addr, user]
    Tables,           \* the sub-device lists the cloud may send: sequences of Rows
    Users,            \* the userids the cloud may give the gateway
    Blank,            \* a slot of the table, or a userid, that holds zeros
    NoMsg,            \* nothing published yet, no callback called yet
    Digits,           \* the digits of addresses; a text of them stands for
    AddrCells,        \*   busport and devaddr, the cells for what atol() can read
    Leftovers,        \* what the stack holds where the decoders put an address,
                      \*   with Nul for all that atol() stops at
    GatewayAddr,      \* the 0 that means the gateway itself
    SUBDEV_MAX_SIZE,
    WifiPolls,        \* polls of gwWifiConfig() before it gives up (20)
    RemoteWindow,     \* ticks of failing to connect before AP mode (60 s)
    InboxSize,        \* commands of the cloud that may be in flight
    CloudMayForget,   \* whether a registration may stay unanswered
    GatewayCommands   \* which of read and write the cloud sends to the gateway itself

\* The addresses are numbers without leading zeros, so that texts differ when
\* the numbers do, and end within their array.
ASSUME RowsAssumption ==
    \A r \in Rows :
        /\ DOMAIN r = {"dev", "addr", "user"} /\ r.dev # GW
        /\ r.addr \in Texts(Digits, AddrCells - 1) \ {<<>>}
ASSUME AddrAssumption ==
    /\ Nul \notin Digits /\ AddrCells \in Nat \ {0}
    /\ Leftovers \subseteq [1..AddrCells -> Digits \cup {Nul}] /\ Leftovers # {}
\* A list beyond SUBDEV_MAX_SIZE would be copied past the ends of the arrays.
ASSUME TablesAssumption ==
    /\ Tables \subseteq Seq(Rows) /\ <<>> \notin Tables
    /\ \A t \in Tables : Len(t) <= SUBDEV_MAX_SIZE
ASSUME BlankAssumption == Blank \notin Rows /\ Blank \notin Users
ASSUME SizeAssumption == SUBDEV_MAX_SIZE \in Nat \ {0}
ASSUME WindowAssumption == WifiPolls \in Nat \ {0} /\ RemoteWindow \in Nat /\ InboxSize \in Nat
ASSUME FlagAssumption == CloudMayForget \in BOOLEAN /\ GatewayCommands \subseteq {"read", "write"}

VARIABLES
    pc,             \* where the program is
    polls,          \* i of gwWifiConfig()
    subOk,          \* m_GwInfo.gw_sub_successed
    userid,         \* m_GwInfo.userid
    subDevs,        \* m_SubDevsInfo, by slot
    numSubDevs,     \* _numofsubdevs
    remoteFirst,    \* RemoteFirstTimeState = 1
    remoteAge,      \* age of RemoteConfigStart, once remoteFirst is FALSE
    wifi,           \* WiFi.status() == WL_CONNECTED
    configured,     \* the configuration names a WiFi network
    session,        \* pClient->connected()
    subs,           \* the subscriptions of this session at the broker
    asked,          \* a registration the cloud has not answered
    inbox,          \* messages on their way to the gateway, oldest first
    granted,        \* the list of the last ackuserid this session handled
    sent,           \* the sub-device last published for
    called,         \* the callback made in this loop(): target, address passed
    downFor,        \* ticks since a session was last set up, up to the window
    calm            \* from now on WiFi, network and cloud do not fail

programVars == <<pc, polls, subOk, userid, subDevs, numSubDevs, remoteFirst, remoteAge>>
cloudVars == <<session, subs, asked, inbox, granted>>
outVars == <<sent, called>>
envVars == <<wifi, configured, downFor, calm>>
vars == <<programVars, cloudVars, outVars, envVars>>

Slots == 1..SUBDEV_MAX_SIZE
Devs == {r.dev : r \in Rows}
Addrs == Texts(Digits, AddrCells) \cup {GatewayAddr}
Topics == (Devs \cup {GW}) \X (Users \cup {r.user : r \in Rows}) \X {"read", "write"}
Ackuserid == <<GW, Blank, "ackuserid">>

\* Answers to a registration.  What is not JSON is "malformed"; any other names
\* sub-devices, whatever its cmd is.
Replies ==
    [type : {"ackuserid"}, cmd : {"ok"}, user : Users, rows : Tables]
        \cup [type : {"ackuserid"}, cmd : {"redirect", "other"}, rows : Tables]
        \cup [type : {"malformed"}]

\* "read" is the read of a point, which the callback answers with gwAck();
\* "write" is every other command with a callback: the write of a point, the
\* restart, and the time read or adjusted.
Commands ==
    [type : {"read", "write"}, dev : Devs \cup {GW}]
        \cup [type : {"wificlear", "update"}, dev : {GW}]
Messages == Replies \cup Commands

-----------------------------------------------------------------------------
(* Pieces of the handlers. *)

\* The session ends: what was on its way in it is lost, and the broker forgets
\* the subscriptions (the client connects with a clean session).
SessionEnds ==
    /\ session' = "down" /\ subs' = {} /\ asked' = FALSE
    /\ inbox' = <<>> /\ granted' = <<>>

\* PRCMSOCReset(): all of RAM is gone, and the radio starts again.
Reset == pc' = "boot" /\ SessionEnds /\ wifi' = FALSE

SubOkOnReconnect_Kept == subOk

\* gwRun() forgets the registration before it connects again.
SubOkOnReconnect == FALSE

Copied_LastMissing(rows) == [i \in Slots |-> IF i < Len(rows) THEN rows[i] ELSE subDevs[i]]

\* The slots m_SubDevsInfo shows after the copy of a list.
Copied(rows) == [i \in Slots |-> IF i <= Len(rows) THEN rows[i] ELSE subDevs[i]]

ReadWrite(dev, user) == {dev} \X {user} \X {"read", "write"}

SubDevTopics_GatewayUser(rows, user) == UNION {ReadWrite(rows[i].dev, user) : i \in DOMAIN rows}

\* gwSubdevsRWSub()
SubDevTopics(rows, user) == UNION {ReadWrite(rows[i].dev, rows[i].user) : i \in DOMAIN rows}

Entries == {i \in Slots : i <= numSubDevs /\ subDevs[i] # Blank}

First(slots) == CHOOSE i \in slots : \A j \in slots : i <= j

\* The first entry of the table with this address; 0 if there is none.
SlotAt(addr) ==
    LET found == {i \in Entries : subDevs[i].addr = addr}
    IN  IF found = {} THEN 0 ELSE First(found)

\* The entries strcmp() finds for a devindex.
Found(dev) == {i \in Entries : subDevs[i].dev = dev}

\* atol() of a text of digits; of none it is 0.
Atol(text) == IF text = <<>> THEN GatewayAddr ELSE text

DecodedAddrs_AnyEntry(dev) ==
    {Atol(Str(StrNCpy(rest, subDevs[i].addr))) : rest \in Leftovers, i \in Entries}

\* The address the decode functions return for a devindex and atol() reads: that
\* of its first entry, copied over what the stack held and without an end of
\* its own, or, without an entry, what the stack held.
DecodedAddrs(dev) ==
    IF Found(dev) = {}
    THEN {Atol(Str(rest)) : rest \in Leftovers}
    ELSE {Atol(Str(StrNCpy(rest, subDevs[First(Found(dev))].addr))) : rest \in Leftovers}

\* The slots gwAck() may publish for, after a read: the number of the entry is in
\* devack, which without an entry is what the stack held.
AnsweringSlots(dev) == IF Found(dev) = {} THEN Slots ELSE {First(Found(dev))}

Init ==
    /\ pc = "boot" /\ polls = 0
    /\ subOk = FALSE /\ userid = Blank
    /\ subDevs = [i \in Slots |-> Blank] /\ numSubDevs = 0
    /\ remoteFirst = TRUE /\ remoteAge = 0
    /\ wifi = FALSE /\ configured \in BOOLEAN
    /\ session = "down" /\ subs = {} /\ asked = FALSE /\ inbox = <<>> /\ granted = <<>>
    /\ sent = NoMsg /\ called = NoMsg
    /\ downFor = 0 /\ calm = FALSE

-----------------------------------------------------------------------------
(* gwInit() and gwRun() *)

\* The constructor and gwInit().
Boot ==
    /\ pc = "boot"
    /\ pc' = "run" /\ polls' = 0
    /\ subOk' = FALSE /\ userid' = Blank
    /\ subDevs' = [i \in Slots |-> Blank] /\ numSubDevs' = 0
    /\ remoteFirst' = TRUE /\ remoteAge' = 0
    /\ downFor' = 0
    /\ UNCHANGED <<cloudVars, outVars, wifi, configured, calm>>

\* gwRun() asks for WiFi; without it gwWifiConfig() begins to poll.
RunStart ==
    /\ pc = "run"
    /\ IF wifi THEN pc' = "check" /\ UNCHANGED polls ELSE pc' = "wifi" /\ polls' = 0
    /\ UNCHANGED <<subOk, userid, subDevs, numSubDevs, remoteFirst, remoteAge,
                   cloudVars, outVars, envVars>>

LastPoll_OneMore(n) == n > WifiPolls

\* The loop of gwWifiConfig() is over after n polls.
LastPoll(n) == n >= WifiPolls

\* One poll.  After the last, gwWifiConfig() calls gwAPModeConfig(), which only
\* a reset leaves.
WifiPoll ==
    /\ pc = "wifi"
    /\ IF wifi
       THEN pc' = "check" /\ UNCHANGED polls
       ELSE /\ polls' = polls + 1
            /\ pc' = IF LastPoll(polls + 1) THEN "ap" ELSE "wifi"
    /\ UNCHANGED <<subOk, userid, subDevs, numSubDevs, remoteFirst, remoteAge,
                   cloudVars, outVars, envVars>>

\* gwRun() reads the WiFi status again, and with a session goes on to loop().
RunGoesOn ==
    /\ pc = "check"
    /\ \/ ~wifi /\ pc' = "app"
       \/ wifi /\ session = "up" /\ pc' = "poll"
    /\ UNCHANGED <<polls, subOk, userid, subDevs, numSubDevs, remoteFirst, remoteAge,
                   cloudVars, outVars, envVars>>

\* gwDataMemoryInit(), with the flag: everything the session before was told
\* but the number of sub-devices and the gateway's userid.
ForgetSession ==
    /\ subOk' = SubOkOnReconnect
    /\ subDevs' = [i \in Slots |-> Blank]
    /\ UNCHANGED <<userid, numSubDevs>>

SubsAfterConnect_None == {}

\* gwAckuseridSub()
SubsAfterConnect == {Ackuserid}

RemoteFirstOnSuccess_Kept == remoteFirst

RemoteFirstOnSuccess == TRUE

\* connect() succeeds; ackuserid is subscribed and the registration published,
\* once in the session, its result not looked at.
RunConnects ==
    /\ pc = "check" /\ wifi /\ session = "down"
    /\ ForgetSession
    /\ remoteFirst' = RemoteFirstOnSuccess
    /\ remoteAge' = IF RemoteFirstOnSuccess THEN 0 ELSE remoteAge
    /\ session' = "up" /\ subs' = SubsAfterConnect /\ asked' = TRUE
    /\ downFor' = 0
    /\ pc' = "poll"
    /\ UNCHANGED <<polls, inbox, granted, outVars, wifi, configured, calm>>

\* connect() fails.  The window opens at the first failure since a session or
\* a reset, and once it is over gwRun() turns to AP mode for good.
RunFailsToConnect ==
    /\ pc = "check" /\ wifi /\ session = "down" /\ ~calm
    /\ ForgetSession
    /\ remoteFirst' = FALSE
    /\ remoteAge' = IF remoteFirst THEN 0 ELSE remoteAge
    /\ pc' = IF ~remoteFirst /\ remoteAge > RemoteWindow THEN "ap" ELSE "poll"
    /\ wifi' = (pc' # "ap")
    /\ UNCHANGED <<polls, cloudVars, outVars, configured, downFor, calm>>

-----------------------------------------------------------------------------
(* pClient->loop(): one message at most, handled by gwMQTTDataParse(). *)

PollNothing ==
    /\ pc = "poll" /\ inbox = <<>>
    /\ pc' = "app"
    /\ UNCHANGED <<polls, subOk, userid, subDevs, numSubDevs, remoteFirst, remoteAge,
                   cloudVars, outVars, envVars>>

Receive(type) == pc = "poll" /\ inbox # <<>> /\ Head(inbox).type = type

\* gwPayloadAckuseridParse() of an answer with this cmd: its list is copied, and
\* the entries counted, before the cmd is looked at.
ReceiveAckuserid(cmd) ==
    /\ Receive("ackuserid") /\ Head(inbox).cmd = cmd
    /\ subDevs' = Copied(Head(inbox).rows)
    /\ numSubDevs' = Len(Head(inbox).rows)

\* cmd "ok": the userid is copied and every read and write topic is subscribed.
AckuseridOk ==
    /\ ReceiveAckuserid("ok")
    /\ LET rows == Head(inbox).rows
           user == Head(inbox).user
       IN  /\ userid' = user
           /\ subs' = subs \cup ReadWrite(GW, user) \cup SubDevTopics(rows, user)
           /\ granted' = rows
    /\ subOk' = TRUE
    /\ inbox' = Tail(inbox)
    /\ pc' = "app"
    /\ UNCHANGED <<polls, remoteFirst, remoteAge, session, asked, outVars, envVars>>

\* A cmd the gateway does not know: nothing after the copy.
AckuseridOther ==
    /\ ReceiveAckuserid("other")
    /\ inbox' = Tail(inbox)
    /\ pc' = "app"
    /\ UNCHANGED <<polls, subOk, userid, remoteFirst, remoteAge,
                   session, subs, asked, granted, outVars, envVars>>

\* gwPayloadAckuseridParse() of what is not JSON returns at once.
AckuseridMalformed ==
    /\ Receive("malformed")
    /\ inbox' = Tail(inbox)
    /\ pc' = "app"
    /\ UNCHANGED <<polls, subOk, userid, subDevs, numSubDevs, remoteFirst, remoteAge,
                   session, subs, asked, granted, outVars, envVars>>

\* cmd "redirect": the new server goes to the flash (ConfigStore) and the
\* gateway resets.
AckuseridRedirect ==
    /\ ReceiveAckuserid("redirect")
    /\ Reset
    /\ UNCHANGED <<polls, subOk, userid, remoteFirst, remoteAge,
                   outVars, configured, downFor, calm>>

\* A command with a callback.  Not registered, the gateway drops it; registered,
\* the application's callback gets the address the decode found.
CommandToDevice ==
    /\ Receive("read") \/ Receive("write")
    /\ LET cmd == Head(inbox) IN
       IF subOk
       THEN /\ \E addr \in DecodedAddrs(cmd.dev) : called' = [dev |-> cmd.dev, addr |-> addr]
            /\ IF cmd.type = "read"
               THEN \E i \in AnsweringSlots(cmd.dev) : sent' = subDevs[i]
               ELSE UNCHANGED sent
       ELSE UNCHANGED outVars
    /\ inbox' = Tail(inbox)
    /\ pc' = "app"
    /\ UNCHANGED <<polls, subOk, userid, subDevs, numSubDevs, remoteFirst, remoteAge,
                   session, subs, asked, granted, envVars>>

\* 1009: the WiFi network is cleared, in the flash too unless the file cannot be
\* opened, and the gateway resets.
WifiClear ==
    /\ Receive("wificlear")
    /\ IF subOk
       THEN Reset /\ configured' \in {FALSE, configured}
       ELSE /\ inbox' = Tail(inbox) /\ pc' = "app"
            /\ UNCHANGED <<session, subs, asked, granted, wifi, configured>>
    /\ UNCHANGED <<polls, subOk, userid, subDevs, numSubDevs, remoteFirst, remoteAge,
                   outVars, downFor, calm>>

\* 1005: gwUpdateFirmware() returns after an early failure and resets otherwise.
Update ==
    /\ Receive("update")
    /\ \/ subOk /\ Reset
       \/ /\ inbox' = Tail(inbox) /\ pc' = "app"
          /\ UNCHANGED <<session, subs, asked, granted, wifi>>
    /\ UNCHANGED <<polls, subOk, userid, subDevs, numSubDevs, remoteFirst, remoteAge,
                   outVars, configured, downFor, calm>>

-----------------------------------------------------------------------------
(* The application's part of loop(). *)

\* online() and gwValueChange(): for the first entry with the address, if the
\* gateway is registered; publish() drops it when the session is down.
AppPublishes ==
    /\ pc = "app"
    /\ \E addr \in {r.addr : r \in Rows} :
          /\ subOk /\ SlotAt(addr) # 0 /\ session = "up"
          /\ sent' = subDevs[SlotAt(addr)]
    /\ UNCHANGED <<programVars, cloudVars, called, envVars>>

AppReturns ==
    /\ pc = "app"
    /\ pc' = "run" /\ called' = NoMsg
    /\ UNCHANGED <<polls, subOk, userid, subDevs, numSubDevs, remoteFirst, remoteAge,
                   cloudVars, sent, envVars>>

-----------------------------------------------------------------------------
(* AP mode: a reset ends it, after a window or after the user's visit. *)

ApExpires ==
    /\ pc = "ap"
    /\ Reset
    /\ UNCHANGED <<polls, subOk, userid, subDevs, numSubDevs, remoteFirst, remoteAge,
                   outVars, configured, downFor, calm>>

ApUserSaves ==
    /\ pc = "ap"
    /\ Reset /\ configured' = TRUE
    /\ UNCHANGED <<polls, subOk, userid, subDevs, numSubDevs, remoteFirst, remoteAge,
                   outVars, downFor, calm>>

-----------------------------------------------------------------------------
(* WiFi, the network, the cloud and the clock. *)

\* The radio joins the network of the configuration, except in AP mode.
WifiJoins ==
    /\ ~wifi /\ configured /\ pc \notin {"ap", "boot"}
    /\ wifi' = TRUE
    /\ UNCHANGED <<programVars, cloudVars, outVars, configured, downFor, calm>>

WifiLost ==
    /\ wifi /\ ~calm
    /\ wifi' = FALSE
    /\ UNCHANGED <<programVars, cloudVars, outVars, configured, downFor, calm>>

SessionDrops ==
    /\ session = "up" /\ ~calm
    /\ SessionEnds
    /\ UNCHANGED <<programVars, outVars, envVars>>

\* The cloud answers a registration, once: it grants it, or sends the gateway to
\* another server, or its answer arrives unreadable or is not understood.
CloudAnswers ==
    /\ asked /\ Ackuserid \in subs /\ Len(inbox) < InboxSize
    /\ \E reply \in Replies :
          /\ calm => reply.type = "ackuserid" /\ reply.cmd = "ok"
          /\ reply.type = "malformed" \/ reply.cmd = "other" => CloudMayForget
          /\ inbox' = Append(inbox, reply)
    /\ asked' = FALSE
    /\ UNCHANGED <<programVars, session, subs, granted, outVars, envVars>>

\* No answer comes: the service behind the broker was away.
CloudForgets ==
    /\ asked /\ CloudMayForget /\ ~calm
    /\ asked' = FALSE
    /\ UNCHANGED <<programVars, session, subs, inbox, granted, outVars, envVars>>

\* Somebody commands a device; the broker passes it on to its subscriber.
CloudCommands ==
    /\ Len(inbox) < InboxSize
    /\ \E cmd \in Commands :
          /\ \E topic \in subs : topic[1] = cmd.dev /\ topic # Ackuserid
          /\ calm => cmd.type \notin {"wificlear", "update"}
          /\ (cmd.type \in {"read", "write"} /\ cmd.dev = GW) => cmd.type \in GatewayCommands
          /\ inbox' = Append(inbox, cmd)
    /\ UNCHANGED <<programVars, session, subs, asked, granted, outVars, envVars>>

Older(age) == IF age > RemoteWindow THEN age ELSE age + 1

Tick ==
    /\ pc # "boot"
    /\ remoteAge' = IF remoteFirst THEN 0 ELSE Older(remoteAge)
    /\ downFor' = IF session = "up" THEN 0 ELSE Older(downFor)
    /\ UNCHANGED <<pc, polls, subOk, userid, subDevs, numSubDevs, remoteFirst,
                   cloudVars, outVars, wifi, configured, calm>>

CalmComes ==
    /\ ~calm /\ calm' = TRUE
    /\ UNCHANGED <<programVars, cloudVars, outVars, wifi, configured, downFor>>

Program ==
    \/ Boot \/ RunStart \/ WifiPoll \/ RunGoesOn \/ RunConnects \/ RunFailsToConnect
    \/ PollNothing \/ AckuseridOk \/ AckuseridOther \/ AckuseridMalformed \/ AckuseridRedirect
    \/ CommandToDevice \/ WifiClear \/ Update \/ AppReturns

Next ==
    \/ Boot \/ RunStart \/ WifiPoll \/ RunGoesOn \/ RunConnects \/ RunFailsToConnect
    \/ PollNothing \/ AckuseridOk \/ AckuseridOther \/ AckuseridMalformed \/ AckuseridRedirect
    \/ CommandToDevice \/ WifiClear \/ Update
    \/ AppPublishes \/ AppReturns \/ ApExpires \/ ApUserSaves
    \/ WifiJoins \/ WifiLost \/ SessionDrops
    \/ CloudAnswers \/ CloudForgets \/ CloudCommands \/ Tick \/ CalmComes

Spec == Init /\ [][Next]_vars

\* The program runs on; AP mode ends by its window; a network in range is joined
\* when it is tried for ever, a user who wants the gateway to work visits an AP
\* mode that comes for ever, and the cloud answers in the end.
Fairness ==
    /\ WF_vars(Program) /\ WF_vars(ApExpires)
    /\ SF_vars(WifiJoins) /\ SF_vars(ApUserSaves) /\ SF_vars(CloudAnswers)

FairSpec == Spec /\ Fairness

-----------------------------------------------------------------------------
(* What the session must achieve. *)

\* gwRun() and gwMQTTDataParse() keep every variable in its range: the inbox
\* within InboxSize, what is published and decoded among what the cloud named.
TypeOK ==
    /\ pc \in {"boot", "run", "wifi", "check", "poll", "app", "ap"}
    /\ polls \in 0..WifiPolls
    /\ subOk \in BOOLEAN
    /\ userid \in Users \cup {Blank}
    /\ subDevs \in [Slots -> Rows \cup {Blank}]
    /\ numSubDevs \in Nat
    /\ remoteFirst \in BOOLEAN
    /\ remoteAge \in 0..(RemoteWindow + 1)
    /\ wifi \in BOOLEAN /\ configured \in BOOLEAN
    /\ session \in {"up", "down"}
    /\ subs \subseteq Topics \cup {Ackuserid}
    /\ asked \in BOOLEAN
    /\ inbox \in Seq(Messages) /\ Len(inbox) <= InboxSize
    /\ granted \in Tables \cup {<<>>}
    /\ sent \in Rows \cup {Blank, NoMsg}
    /\ called \in {NoMsg} \cup [dev : Devs \cup {GW}, addr : Addrs]
    /\ downFor \in 0..(RemoteWindow + 1)
    /\ calm \in BOOLEAN

Serving == session = "up" /\ subOk

\* A registered gateway works with the list granted in this very session, to
\* the last entry: nothing of an earlier session, or of none, remains in the
\* table that online(), gwValueChange() and the decode functions search.
TableIsGrant ==
    Serving =>
        /\ numSubDevs = Len(granted) /\ granted # <<>>
        /\ \A i \in DOMAIN granted : subDevs[i] = granted[i]

\* A registered gateway can be reached: the broker holds the read and write
\* topics of the gateway and of every entry, under the userids of the grant.
ServingSubscribed ==
    Serving =>
        /\ ReadWrite(GW, userid) \subseteq subs
        /\ \A i \in Entries : ReadWrite(subDevs[i].dev, subDevs[i].user) \subseteq subs

Calls == called' # called /\ called' # NoMsg

\* A command for a sub-device is carried out under the address that the cloud
\* gave this very session for the devindex of the topic: the digits the callback
\* gets begin with it, whatever the tables of other sessions were. More digits
\* may follow (AddressAsGranted).
AddressBeginsAsGranted ==
    [][Calls /\ called'.dev # GW =>
          \E i \in DOMAIN granted :
              granted[i].dev = called'.dev /\ Begins(called'.addr, granted[i].addr)]_vars

\* gwRun() gives up on the server, and turns the gateway into an access point,
\* only after the whole window without any session, however short the sessions
\* and however many the failures before were.
PatienceBeforeAP ==
    [][pc = "check" /\ pc' = "ap" => downFor > RemoteWindow]_vars

\* The registration is sent once in a session: unanswered, or answered with
\* what is not understood, it leaves the gateway connected and not registered.
Missed ==
    /\ session = "up" /\ ~subOk /\ ~asked
    /\ \A i \in DOMAIN inbox : inbox[i].type = "ackuserid" => inbox[i].cmd = "other"

\* Once WiFi, network and cloud no longer fail, the gateway ends up registered
\* and stays so, from wherever it was: half connected, in AP mode, cleared. A
\* missed registration is the only way out of it.
EventuallyServes == <>[]calm /\ ~<>[]Missed => <>[]Serving

LinkState == IF session = "down" THEN "off" ELSE IF subOk THEN "serving" ELSE "linked"

LinkGrant == IF Serving THEN {granted[i] : i \in DOMAIN granted} ELSE {}

\* The gateway is such a device as the cloud may rely on (DeviceLink).
Link == INSTANCE DeviceLink WITH link <- LinkState, grant <- LinkGrant

LinkSpec == Link!Spec

(* What the repository says of it, and the code does not do. *)

\* doc "2_QQC_MQTT Protocol V1.0", 1.2 h): the registration is pushed again
\* until the device is registered (gwAckuseridRegist() is called once).
RegistrationCompletes == calm ~> Serving

\* gateway.ino, restartCallback(): busport and devaddr follow from the devindex,
\* and are 0 and 0 for the gateway itself. (The decoders write no terminator,
\* and have no entry for the gateway.)
AddressAsGranted ==
    [][Calls =>
          \/ called'.dev = GW /\ called'.addr = GatewayAddr
          \/ \E i \in DOMAIN granted :
                granted[i].dev = called'.dev /\ granted[i].addr = called'.addr]_vars
=============================================================================
