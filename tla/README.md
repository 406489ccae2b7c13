# CC3200_Energia in TLA+

A verification project for the Qiaqia cloud libraries of the TI CC3200: TLA+ models
of the gateway library and the single-device library, TLC configurations that check
them on small instances, and TLAPS proofs that hold for every instance. The
reference is the C++ source under `src/`; `PROJECT.json` maps every definition to
the lines it translates.

## 1. The system

A CC3200 gateway holds one MQTT session with the cloud, registers, is told the
list of its sub-devices (sensors behind a field bus), subscribes their topics,
passes commands to the sketch's callbacks and publishes values for them. Its
configuration (identity, API key, server, WiFi network) lies in one flash file
that a user fills in through a web form in AP mode.

| Part | Files | State | Operations |
|---|---|---|---|
| MQTT client | `gatewayLib/PubSubClient.*` (the same file in `singleDevLib`) | `_state`, `lastInActivity`, `lastOutActivity`, `pingOutstanding`, `nextMsgId`, one packet buffer | `connect`, `loop`, `publish`, `subscribe`, `disconnect`, `connected` |
| Gateway session | `gatewayLib/QiaqiaMqttGateway.*` | `gw_sub_successed`, `userid`, `m_SubDevsInfo`, `_numofsubdevs`, the AP-mode window | `gwRun`, `gwWifiConfig`, `gwMQTTDataParse` and its handlers, `online`, `gwValueChange`, `gwAck` |
| Configuration store | same file | six fields of `gateWayInfo`, `/storage/configinfo.bin` | read at boot; rewritten by the form, a redirect, a WiFi clear |
| AP mode | same file | two windows, one line buffer | `gwAPModeConfig` |
| Firmware update | same file | `\sys\mcuimg.bin` | `gwUpdateFirmware` |
| HTTP client | `gatewayLib/HttpClient.*` | response parser state | `get`, `responseStatusCode`, `skipResponseHeaders`, `read` |
| Topics and payloads | `gatewayLib/MsgHandler.*` | static buffers | encoders, hash of command names |
| Single device | `singleDevLib/QiaqiaMqttSingleDevice.*`, `MsgHandler.*` | `sd_sub_successed`, `userid`, the AP-mode window, the fields of the structures passed to callbacks | `sdInit`, `sdRun`, `sdMQTTDataParse` and its handlers, `sdValueChange`, `sdAck` |
| Sketches | `gateway.ino`, `singledevice.ino` | timers | `setup`, `loop`, callbacks |
| ArduinoJson, b64 | vendored | | JSON, base64 |

**How they interact.** One thread runs `loop()` of the sketch: `gwRun()`, then
the sketch's own publishing. `gwRun()` calls the client's `connected`,
`connect`, `loop`; `loop` calls back into `gwMQTTDataParse`, which subscribes
and publishes through the very same client, changes the table, writes the
configuration file, runs the firmware update to its end, or resets the chip.
A handler reads its message in the client's one packet buffer, which every
publish or subscribe of the same handler overwrites; what outlives a message is
copied into fixed fields. The copies of `PubSubClient` and `HttpClient` in
`singleDevLib` equal those of `gatewayLib` byte for byte, so one module stands
for both. There are no threads or interrupts to
interleave with; what interleaves is the surroundings: WiFi, the TCP socket,
the broker, the cloud, the user, the clock and the power supply can change
between any two steps of the program.

**What is hard.** Time (a keep-alive polled by a caller that comes late, one
packet per call), re-entrance (a callback that publishes), data that outlives
its session, operations that end in a reset, and power that goes between two
flash writes. `PROJECT.json` lists each hazard at its line with the property
that covers it, or why none does yet.

**What makes each part correct**

- *MQTT framing*: whatever the lengths of the packets, the next one is read
  from its first byte, messages reach the callback whole, and what is written
  can be read by a broker.
- *MQTT client*: a session is given up for silence only if the broker is gone,
  and if the broker is gone the session is given up, in bounded time; the
  broker is not starved in between.
- *Gateway session*: registered means registered in this session: table,
  subscriptions and grant belong together; AP mode only after the window; the
  gateway always finds back to service.
- *Configuration store*: no boot uses a mixture of two configurations.
- *AP mode*: it ends unless a client stays for ever, what it writes outside of its
  buffer is what its index cannot count, and a request is honoured once.
- *HTTP client* and *firmware update*: the body begins behind the headers, no
  byte of it is lost or added, progress is not ahead of it, and a download ends.
- *Single device*: registered, it is reachable under the userid it was granted,
  and its answers go to who asked. *Topics*: those of the service fit their buffers.

## 2. The modules

| Module | What it is |
|---|---|
| `MqttClient` | the client with its socket, a mortal broker, time |
| `PeerMonitor` | abstract: trust, probe, suspect; no timers, no packets |
| `MqttFraming` | the same client byte by byte: reading, writing, the one buffer |
| `MessageChannel` | abstract: messages are handed over in order, each once |
| `GatewaySession` | power-up to service, the commands, the application |
| `SingleDevice` | the same for the single-device library, with its fields and the packet buffer |
| `DeviceLink` | abstract: a device serves on a grant of the present connection; both session modules implement it |
| `CString` | texts in char arrays, `strncpy()` as the libraries call it |
| `TopicCodec` | lengths of topics against their buffers, acknowledgement data and its decoder |
| `ConfigStore` | the configuration file, its readers and writers, power cuts |
| `AtomicConfig` | abstract: a configuration changes in one step or is lost |
| `ApMode` | the web server of AP mode: windows, visits, line reader |
| `FirmwareUpdate` | the download of an image with the HTTP response parser inside |
| `*_proofs` | theorems about the module of that name; both session modules use `CString_proofs`, what a text copied into a field reads as |
| `MC*` | instances for TLC |

Each component module stands for one part and shows the others at their
interface: the sessions see the client as `up` or `down`, an update as something
that returns or resets, the configuration as a bit; `ConfigStore`, `ApMode`,
`MqttClient`, `MqttFraming` and `FirmwareUpdate` open those up.

### MqttClient

The variables are the members of `PubSubClient` (a time stamp is modelled by
its age, because `millis()` is read only in differences, which unsigned
arithmetic keeps right across the wrap), the socket, its unread packets and the
broker. `phase` is the place of the one thread: outside the library, waiting in
`connect()`, or in the callback of `loop()`.

| Code | Actions |
|---|---|
| `connect()` 116-206 | `ConnectFails`, `ConnectSends`, `ConnectAnswered`, `ConnectTimesOut` |
| `loop()` 282-345 | `LoopFindsLoss`, `LoopGivesUp`, `LoopRuns`, `CallbackReturns` |
| `publish()`, `subscribe()`, `disconnect()` | `Publish`, `Subscribe`, `Disconnect` |
| outside | `BrokerAnswers`, `BrokerSends`, `BrokerDies`, `SocketDrops`, `Tick` |

A call of `loop()` is one step, split only around the callback, since the
callback may take time and call `publish()` and `subscribe()`. Between
`connect()`'s write and its answer time passes and the socket may close.
Packets are whole here; `MqttFraming` has their bytes.

The environment is bounded by named constants: a live broker answers within
`Latency`, at most `Backlog` packets of its own wait ahead of an answer, the
application calls `loop()` again within `MaxGap`. `PromptLoopAssumption`,
`Latency + (Backlog + 1) * MaxGap <= KeepAlive` and `2 * MaxGap <= KeepAlive`,
is what the keep-alive needs of them. It is tight: lower `KeepAlive` by one
tick in the instance below and the client drops a live broker, because
`loop()` (285-289) tests the flag before it reads the socket.

### MqttFraming

A packet is what its lengths make of it; the bytes of its contents are counted
and nothing else. `queue` is the stream from the broker, `read` how far the
first packet of it has been read, and `phase` the place in `readPacket()`.

| Code | Actions |
|---|---|
| `readPacket()` 232-280 | `ReadHeader`, `ReadDigit`, `ReadTopicLength`, then `ReadPublish`, `ReadOther` or, in `connect()`, `ReadConnack` |
| `readByte()` 209-230 | `Stall`, and `Misread` for what later calls make of the rest |
| `loop()` 300-327 | `ReadPublish`, `CallbackReturns` with its PUBACK |
| `publish()`, `subscribe()`, `unsubscribe()`, `connect()`, `write()` | `Publish`, `Subscribe`, `Connect` |
| broker and network | `BrokerAccepts`, `BrokerSends`, `SessionEnds` |

The counters have 16 bits and wrap. A publish or subscribe may come at any time
in a callback and sets `buf` to `None`: what the callback was reading is gone,
which is why the identifier for the PUBACK has to be kept apart. After a stall
nothing is promised of the rest of the connection (`broken`), and the model lets
the client take the rest for anything.

### GatewaySession

`pc` follows `gwRun()` in its order (WiFi asked, polled, asked again, session
asked, `loop()`), then the sketch. `ForgetSession` is `gwDataMemoryInit()` and
the flag, run before every attempt to connect, also one that fails.
The handler of an answer copies its list and counts it before it looks at the cmd
(`ReceiveAckuserid`), also for a redirect and for a cmd it does not know
(`AckuseridOther`); `AckuseridOk` goes on with userid, flag and every subscription.
`CommandToDevice` is a dispatch and its decode, for a sub-device or for the gateway
itself. `DecodedAddrs` is the decode of an address: the granted digits copied,
without a terminator, over what the stack held there (`Leftovers`), up to where
`atol()` stops; without an entry, what the stack held. A read is answered inside its
callback for the entry whose number the decode left in `devack`, and without an entry
for any slot (`AnsweringSlots`). `Update` and `WifiClear` end in a reset, a clear also
when its file cannot be opened. The MQTT session is `up` or `down` here; what it takes
to notice is `MqttClient`'s.

Deliberate limits: a userid replaces the one before (`SingleDevice` has the stale tail
that `strncpy` leaves of a longer one), lists have at least one entry (the do-while
would read a missing one) and no more than `SUBDEV_MAX_SIZE` (609-619 copy without
looking at it, and what a longer one overwrites is memory layout), messages arrive
whole and in order, each `subscribe()` of a handler succeeds or the session is down, and
the cloud answers one registration once, as it is published once in a session. One
text stands for busport and devaddr, which are decoded alike; addresses have no leading
zeros and end within their array. `"write"` stands for every command whose callback
is not asked for an answer: write, restart, time read and time adjusted. What the
application does in a callback is not modelled beyond the answer to a read; its
reset on a restart for 0/0 is a power-up like any other.
AP mode is one place that a reset leaves, by its window or after the user's
visit. The gateway library's form page (293-308) names members of the
single-device library; the model takes the page for what it is in that library.

### ConfigStore

A field's value is named after the user or server it came from, so a mixture shows.
The three writers share the order of their six writes; `SaveForm` deletes the file
first; a redirect or a clear whose open fails resets all the same. A power cut
during the writes leaves the file of before or the fields written so far, and a boot
reads zeros for the rest, because `gwInit()` clears `m_GwInfo` first. The network
lets in who has the right password. A single write that fails while the others
succeed (645-650 look at no result) is not modelled.

### ApMode

`WindowResets` and `AcceptClient` are the outer loop (184-245), which looks at
the two windows before it looks for a client. The inner loop (245-481) is one
action per byte: `ReadChar` stores it and moves the index, `ReadReturn` is the
carriage return, which is not stored, `ReadNewline` ends a line, `SendPage` the
blank one. After every byte but a newline the code searches the text for the
request; `Look` is that search and the whole branch it leads to. Lines are
lengths, and `held` counts the characters that stand at the start of the
buffer: a character written elsewhere because the index has wrapped adds
nothing to it. `stray` says that the client of this visit has had one written
there, which an ordinary header line of more than 128 characters does; such writes
are taken to hit nothing that the model shows. A visit may last for ever. Writing
the form is `ConfigStore`'s; here it succeeds or not.

### FirmwareUpdate

A response is a sequence of symbols: the pieces of text that the parser tells
apart (the beginning of a status line, `Content-Length: `, a part of it, a digit,
CR, LF), and any other character. A byte in the image is the position in the
response it came from, so a lost or foreign byte shows. `pc` follows
`gwUpdateFirmware()`.

| Code | Actions |
|---|---|
| `gwUpdateFirmware()` 881-931 | `OpenOld`, `Delete`, `Create`, `Get`, each with its early return |
| `responseStatusCode()` 295-403 | `ReadStatus`, `StatusTimesOut` |
| `skipResponseHeaders()`, `readHeader()` | `ReadHeader`, `HeadersTimeOut` |
| the download loop 949-979 | `ReadBody`, `BodyEnds` |
| the end 1001-1008 | `Finish`, then `Boot` |
| outside | `ServerCloses`, `Tick`, `PowerCut` |

`ServerCloses` is the moment at which the server has closed and what had come is
read: the loop goes on while `connected() || available()` (949), so a close with
unread bytes ends nothing yet. `trouble` records that something outside of the
program failed (a flash call, the connection, a server that stalls or closes early,
the power, a response that the parser rejects); what the code owes is owed when it
is down. Reports are publishes that may fail: nobody looks at their result.

### SingleDevice

`pc` follows `sdRun()`, the handler of a message, the sketch's part of `loop()`
and AP mode. `packet` is the message being handled as long as the client's buffer
holds it: `SubscribeRead` overwrites it between the two subscribes of one
handler. `userid` is a field of cells and `UseridCopy` is what
`strncpy(field, text, strlen(text))` does to it, so a shorter userid leaves the
end of a longer one. The structures for the callbacks are local and not
initialised: `Leftovers` and `Rests` are what the stack may have held.
`AckEncode`, `Followed` and `AckDecode` are the acknowledgement data on its way
through the application. Each `sprintf()` adds its kind to `overrun` when the
text is longer than the static array, and what lies behind it is taken to be nothing
that the model shows. An update is something that reports, fails
or resets (`FirmwareUpdate`); AP mode has its windows and outcomes (`ApMode`).
The sketch acknowledges a read inside of its callback, as `singledevice.ino` does, so
one asker is in the fields at a time.

## 3. What TLC checks

| Run | Instance | States | Properties |
|---|---|---|---|
| `mqtt` | KeepAlive 5, SocketTimeout 5, MaxGap 2, Latency 1, Backlog 1, 4 identifiers | 78,402 | `TypeOK`, `PingAccounting`, `BrokerNotStarved`, `DetectionBound`, `NoFalseAlarm`, `LostSessionNoticed`, `MonitorSpec` |
| `framing` | the sizes of the code: buffer 2048, 16 bits; 12 packets, 2 under way, stalls after 0, 1, 30 and 2046 bytes | 105,490 | `TypeOK`, `InStep`, `MessageWhole`, `OutgoingFramed`, `AckNamesMessage`, `ChannelSpec` |
| `gateway` | 2 sub-devices with 2 addresses, 2 lists, 2 userids, digits 1 and 2 in 2 cells, stacks with and without a digit, 2 polls, window 1, inbox 2; the cloud may miss a registration or answer it unreadably or with an unknown cmd | 92,196 | `TypeOK`, `TableIsGrant`, `ServingSubscribed`, `AddressBeginsAsGranted`, `PatienceBeforeAP`, `LinkSpec`, `EventuallyServes` |
| `device` | the devindex of 24 and epindex of 6 characters, an asker of full length, userids of one and two characters, fields of three, clean and dirty structures, inbox 1, windows 0 and 1 | 132,826 | `TypeOK`, `ServingReachable`, `UseridExact`, `ServiceTopicsFit`, `AckAnswersRead`, `EventuallyReports`, `LinkSpec` |
| `config` | 2 users, one on an open network, 3 servers | 1,342 | `TypeOK`, `OnlineConsistent`, `RedirectFollowed`, `AtomicSpec` |
| `apmode` | index up to 127, buffer of 200, request lines of 16, 100 and 128, headers of 20, 128, 200 and 300, 2 headers, windows 1 and 3 | 165,896 | `TypeOK`, `LeavesBeyondIndex`, `RequestHonoured`, `ApEnds` |
| `update` | 11 responses with bodies of up to 9 bytes, patience 2 | 34,192 | `TypeOK`, `ImageIsBody`, `GoodUpdateComplete`, `ProgressHonest`, `UpdateEnds` |
| `registration` | as `gateway`, inbox 1 | | `RegistrationCompletes`, violated |
| `address` | as `gateway`, inbox 1, reads and writes for the gateway itself | | `AddressAsGranted`, violated |
| `longform` | as `apmode`, a form's line of 130 | | `FormTaken`, violated |
| `leftover` | as `device` | | `WriteAsCommanded`, violated |
| `longvisit` | as `apmode`, short headers | | `ApRestarts`, violated |

**Why the bounds are enough.** `mqtt`: the intervals are the smallest in which an
answer can wait behind another packet while a call comes late, and the assumption
holds with equality, so every case is at its limit; four identifiers make the
counter wrap. `gateway`: the two lists differ in length and swap an address between
devices, so data of an old session cannot pass for that of a new one; the stack
holds nothing behind an address, a digit behind it, or a digit under it, and a cell
more than an address has is where a digit too much shows (2 cells, since addresses
have one digit here). An inbox of two lets a command overtake nothing but wait
behind an answer or another command, also across a change of the table. `config`:
two users are needed to mix configurations, an open network because its password is
indistinguishable from a missing one, and three servers so that a redirect can name
one that is nobody's home. `apmode`: index and buffer have their real sizes. A
form's line of 128 characters is the most that the index can count; headers of 128,
200 and 300 lie at that limit, behind it, and behind the place where the index has
gone once around and writes the buffer again, and two headers let a long line follow
a long one. `longform` adds the longest form that the page lets through. Two windows
that differ are enough for every order of their ends, and no bound is put on how
long a visit lasts. `framing`: packets lie on both sides of each change in the
number of length digits, on both sides of the buffer's end and of 16 bits, with and
without an identifier; the topics and payloads written do the same for `publish()`
and `subscribe()`, the longest of them to the byte. Two packets under way are what
losing the framing of one does to the next. `device`: two userids of different
lengths make a copy shorter and longer than the one before; one structure is clean
and one holds the end of another command; a source may be empty, which the topic
parser gives up on; devindex and epindex have the length that the page and the
library give them, and who asks has texts of full length, so that the lengths of the
topics are those of a configured device. `update`: lengths that four divides, does
not divide, and below four; a header before, after and instead of the length, one
that begins like it, two of them, one that is too long and one that is too short for
the body, a body without one, an error status, an informational response with and
without its blank line, and a blank line without a carriage return. The server may
close and the clock may run out at each symbol.

**Fairness.** The program is never assumed to be lucky. `mqtt`: the sketch calls
`loop()` again, a callback returns, a blocking `connect()` ends, time passes;
nothing is assumed of broker or network. `gateway`: weak fairness of the program's
own steps and of AP mode's window, strong fairness of the three outsiders service
depends on: a network in range that is tried for ever is joined, a user visits an AP
mode that returns for ever, the cloud answers a registration that can be answered
for ever. `EventuallyServes` speaks of behaviours that become calm; losses, failures
and commands to clear or update may come any number of times before. That is only
true unless the cloud missed the registration, which the property says (and
`registration` shows). The window of AP mode is `ApExpires` here, fair because of
what `ApEnds` shows; a client that stays in AP mode for ever (`longvisit`) is left
out of it. `device`: the same, except that AP mode is open to view: its client is
under no fairness, so `EventuallyReports` speaks of behaviours in which none stays
for ever, and the user comes to it and gets a form saved if it returns for ever.
`update`: the program runs on and the clock goes; nothing of the server. `config`:
the program does not stop half way; no user and no cloud is needed. `apmode`: the
outer loop tests its windows and time passes; nothing is assumed of clients, and
`ApEnds` is about behaviours in which none stays for ever.

**Refinements.** `MonitorSpec`, `ChannelSpec`, `LinkSpec` (twice) and `AtomicSpec`
are the abstract specifications under the mappings at the end of each module, as
properties of the run.

**Deadlock** is checked in every run but `update`: a power cut during the
download leaves a torn image, with which the chip does not start, and that is
the end of it.

### Findings

1. `registration`: `gwRun()` (QiaqiaMqttGateway.cpp:148) registers once per
   connection and drops the result; the protocol document (doc 2, 1.2 g-h) has the
   device register again until it is. A session that stays up after a missed
   registration never serves.
2. `address`: the gateway's decoders copy the digits of an address into a structure
   that nothing initialises, without a terminator (:712, :730-731, :749, :767-768),
   and `atol()` reads on into what the stack held (:1029, :1079, :1085). For the
   gateway itself the search among sub-devices cannot succeed and the structure is
   as the stack held it, where `gateway.ino`:58 waits for 0/0.
3. `longform`: the line index is a signed byte (:242, :396), and the longest form
   the page accepts makes a line of 129 characters up to the place where the code
   recognises it. It is never recognised: the user gets the form again, and nothing
   was saved.
4. `leftover`: a write is decoded into a local structure that nothing initialises,
   with copies that end no text (QiaqiaMqttSingleDevice.cpp:703-704). The callback
   may see more of a value than was sent; the protocol document (2.3.3) has
   "value":"1" write 1.
5. `longvisit`: the comment at QiaqiaMqttGateway.cpp:204 has AP config end in a
   restart after ten minutes, but the windows are tested in the outer loop only. The
   loop over the bytes of a client (:245) looks at no timer, so one that connects
   and stays silent keeps the gateway an access point for good.

### Observed, and not made a run

Behaviour met while modelling that no document contradicts, or that ends in what
the source does not say. Each is in the models or among the hazards:

- An informational response cannot be coped with, although a comment says so
  (HttpClient.cpp:309-311): the carriage return of its blank line is taken for a
  malformed status line and the update fails. The instance of `update` has it.
- Any final status is taken for an image, a 404 too, and "100" and "update ok!!"
  are published whatever came. `ProgressHonest` speaks of the download loop only.
- An update that returns early leaves the file open and the old image deleted.
- A header line that begins with a carriage return is taken for the blank line
  (HttpClient.cpp:522-527); the proofs assume there is none (`HeadersBegin`). A
  blank line of a bare LF is not recognised, and the download then times out.
- `subscribe()` asks for one byte less than it needs (PubSubClient.cpp:477): a
  topic of 2,039 characters would be written one byte beyond the buffer, and no
  topic more than one (`WithinOneByteHolds`). No topic of the libraries is longer
  than 120, and `OutgoingFramedHolds` assumes `RequestsFit`.
- A packet of 64 KB or more loses the framing, because the counts have 16 bits.
- No `loop()` runs during a download, so the broker may end the session meanwhile.
- A header line of more than 128 characters, such as an ordinary `User-Agent`, makes
  the signed index of AP mode wrap, and its 129th character and those after are
  written before the buffer (QiaqiaMqttGateway.cpp:242, :396) until the index has
  come around. `LeavesBeyondIndex` says which characters, and that there are no others.
- With the devindex of 24 characters that the form page demands the registration's two
  topics take 55 and 54 cells of arrays of 50 (MsgHandler.cpp:13, :20):
  `PageDevindexOverruns`.
- The test for a wrap of `millis()` (QiaqiaMqttGateway.cpp:136) never holds; the
  unsigned difference next to it needs no such test.
- The payload encoders return the characters of a local `String`
  (MsgHandler.cpp:151), `topicOnlineEncode()` clears 120 bytes of 60 (:136),
  `updateIP` has no room for a terminator behind 15 characters, and lists longer
  than `SUBDEV_MAX_SIZE` run over the table: what they do is the allocator's or
  the linker's choice.

## 4. What is proved

TLAPS proves these for every value of the constants that satisfies the named
assumptions.

`MqttClient_proofs` (from `KeepAliveAssumption` to `PromptLoopAssumption`):
`TypeCorrect`, `PingAccountingHolds`, `BrokerNeverStarved`,
`DeadBrokerDetected`, `NoFalseAlarmHolds` and `ImplementsMonitor`, all from
`Invariance`: `Spec => []IInv`. The properties are not inductive. `IInv` adds

- `Shape`: a socket without its broker holds nothing; only an open session or
  a lost one is CONNECTED; whatever left the client is younger than `heardAge`;
- `Handshake`: while `connect()` waits both timers show the age of CONNECT, and
  the first packet is still owed or has come;
- `Ledger`: one answer at most, owed or queued, and the flag up for it;
- `Timing`: the argument of `NoFalseAlarm`. An answer queued at position *i*
  will be read after *i* more calls at most, so both timers are at most
  `Latency` plus `Slack(i)`, the time those calls leave, plus the age of the
  last call; every step keeps that sum, and at the front it leaves no room for
  an interval to be over;
- `Silence`: the same potential for a dead broker: what it sent is drained,
  then one interval to the ping and one to the end. It gives `DetectionBound`.

There is one lemma per group of actions, named after it, with arithmetic and
sequence facts stated once before them; `StepIInv` collects them.
`NoFalseAlarmHolds` and `ImplementsMonitor` follow from a single step under
`IInv`.

`ConfigStore_proofs` (from `HomeAssumption`, `BlankAssumption`,
`DistinctAssumption`): `StoreTypeCorrect`, `OnlineConsistentHolds`
and `ImplementsAtomic`, from `StoreInvariance`.
`StoreInv` says that a file that joins a network is one whole configuration,
that RAM is the file's while a gateway tries or is online, and what each
operation may be writing. `RedirectOnCourseHolds` counts what a redirect has
still to do (`StepsLeft`). The core is `PrefixFacts`: of a file cut off after
*n* fields, either *n* covers the network's name and all before it, or no
network is joined. That is why the order of the writes matters.

`ApMode_proofs` (from the assumptions on windows, index and lengths): without a
further hypothesis `ApTypeCorrect` (the index keeps its range although it wraps),
`RequestHonouredHolds` (of clients that wrote nothing outside) and
`LeavesBeyondIndexHolds`, for lines of any length. All follow from `ApInvariance`,
which adds to the types `Understood`, that nothing has happened before the byte that
completes the request and everything after it, whatever headers follow, and
`Reading`, which ties the index to the number of bytes read of the line.
`FormTakenHolds` needs `RequestLinesFit` (no request line is longer than `IndexMax +
1`); on the other side, `LongFormIgnored`: a form whose line passes that length by
more than one character is never taken. That is finding 3 for any constants.

`GatewaySession_proofs` (from the assumptions on tables, windows and constants of
that module): `SessionTypeCorrect`, `TableIsGrantHolds`, `ServingSubscribedHolds`,
`PatienceHolds` and `AddressBeginsAsGrantedHolds`, none with a hypothesis, and
`ImplementsLink` if nobody reads the gateway itself (`"read" \notin
GatewayCommands`; such a read is answered for whatever entry the stack names). Two
theorems divide finding 2: `SubDevicesReachedHolds`, that a command for a sub-device
carries exactly the granted address if the stack happens to end what is copied over
its front (`EndsMet`), and `AddressAsGrantedHolds`, that the gateway's own does,
too, on a stack of zeros (`CleanStack`). `SessionInv` has

- `DownShape`: a session that is down holds no subscription, question or message;
- `UpShape`: an answer that is awaited or under way is the only thing there is,
  and nothing but the answer's topic is subscribed before it is handled. It is
  what makes a table of an earlier session impossible, since a stale answer
  would have to wait in a queue that is empty;
- `Subscriptions` and `Inbound`: what is subscribed and under way names the
  gateway or a sub-device of this grant, so a dispatch finds its target.

`WindowInSilence` ties the window to the time without a session, for
`PatienceHolds`. That the search of a list finds the first match, and that a text
ends at its first Nul, is proved in `CString_proofs` from the least-number
principle, which the library has for sets where its induction theorems take an
operator (`WFMin`); `CopiedText` there is what a reader finds in a field after a
copy. `ServiceLasts` says that a registered gateway in a calm world serves for ever,
and `MissedForGood` that one which missed its registration does not get it in this
session, which is finding 1 for any constants.

`MqttFraming_proofs` (from the assumptions of `MqttFraming`):
`FramingTypeCorrect`, `InStepHolds`, `MessageWholeHolds`, `AckNamesMessageHolds`,
`ImplementsChannel`, and `OutgoingFramedHolds` under `RequestsFit` (topics
subscribed and strings of `connect()` fit the buffer; `publish()` sees to itself).
`FramingInv` adds `Reading`, which says after each byte what the counts are in
terms of the packet: the length so far is the remaining length modulo a power of
128, and the bytes counted are those read; `Places`, which packets may be where in
which state of the connection; and `Kept4Ack`, the identifier of the message in
the callback. Lemmas before it have the arithmetic of digits in base 128.
`WithinOneByteHolds` says what is left without `RequestsFit`: `publish()` and
`unsubscribe()` stay in the buffer for any lengths, `subscribe()` passes it by one
byte at most (and by that one for the topic of `SubscribeLimit`), and the length
in front is right in any case. `FramingNeverLost` is about the other
direction: if the broker's packets can be counted in 16 bits (all of `Incoming`
is below `WordSpace`), only a stall can cost the framing. `LengthRoundTrip`
ties them: the digits that are written are those that are read.

`FirmwareUpdate_proofs` (from the assumptions of `FirmwareUpdate`):
`UpdateTypeCorrect` and `ProgressHonestHolds` for every response, and
`ImageIsBodyHolds` and `GoodUpdateCompleteHolds` under `HeadersBegin`. `Parsing`
says where the parser stands: behind an end of line exactly if its state is that
of a new line, behind an end of line and a carriage return exactly if it waits for
the end of a blank one; `HeadersBegin` is needed here and only here. `CleanBootHolds`
carries the result to the boot: a device that cannot come up with its image had
something outside of the program fail. `UpdateAdvancesHolds` needs no hypothesis:
each step ends the update or lowers four numbers in the order of a dictionary, of
which the third is there because `responseStatusCode()` tries again, once, when
its time ends behind a status line. `Filing` ties
the length of the image to the place in the body, `Seen` says that a cut or stall
before the end has been counted as trouble, and `Quartered` that a quarter is one
of the length announced.

`SingleDevice_proofs` (from the assumptions of `SingleDevice`):
`ServingReachableHolds`, `UseridExactHolds`, `AckAnswersReadHolds`,
`DeviceImplementsLink` and `DeviceTypeCorrect`, none with a hypothesis. `FieldInv`
says that the field holds characters in exactly as many cells as the longest userid
since the boot had, from which `StrFacts` has what a reader finds. `AckDecoded`
follows the acknowledgement data through a field that may hold anything: the sixth,
empty piece that `AckEncode` ends with is what keeps the fifth apart from it.
`ServiceTopicsFitHolds` says of all topics but the registration's that they fit, for
texts within `ServiceTexts`, which admits the page's devindex of 24, an epindex of 6
and a userid that fills its field. `PageDevindexOverruns` is about one of the other
two: a devindex of 24 alone overruns an array before a session is up, with any
epindex that is not empty. `CalledWithFrontHolds` and `WriteAsCommandedHolds` divide
finding 4: the callback always gets at least the text of the command, and gets
exactly that if the structures on the stack happen to end it (`EndsMet`). Both
assume `PlainTexts`, texts without a Nul that fit their fields. `DeviceServiceLasts`
and `DeviceMissedForGood` are the gateway's theorems for the single device.

**Findings and theorems.** Four of the five violations have their cause as a
theorem (`MissedForGood`, `AddressAsGrantedHolds`, `LongFormIgnored`,
`WriteAsCommandedHolds`): the run shows one behaviour, the theorem that it is not
the instance's doing. The fifth, `longvisit`, is liveness, and `ApEnds` says
that a client that stays is its only cause.

**Only model-checked**: liveness, which is out of the prover's reach. Of four of
the six properties the half that is safety is proved, and what stays with TLC is
that the program goes on, under the fairness of the run:

| Property | Proved |
|---|---|
| `RedirectFollowed` | `RedirectOnCourseHolds`: every step of a redirect lowers a number |
| `UpdateEnds` | `UpdateAdvancesHolds`: every step of an update lowers a tuple of numbers |
| `EventuallyServes` | `ServiceLasts`: service once reached is not lost; that it is reached is TLC's |
| `EventuallyReports` | `DeviceServiceLasts`: the same |
| `LostSessionNoticed`, `ApEnds` | the bounds they rest on: `DeadBrokerDetected`; `ApTypeCorrect` for the age of the window |

Every other property of a passing run is a theorem.

## 5. What is not modelled

- **ArduinoJson** and **b64** are third-party and pure functions: JSON is a record
  that can be read or not; base64 is called by neither library.
- **The drivers** (WiFi, SerFlash, PRCM) are not in the repository. They are
  environment actions: they succeed, fail, or lose power between two calls.
- **Contents**: what sketches publish, the texts of pages and of JSON payloads,
  and the extraction of the form's six fields with `strstr()`.
- **HTTP** as the update does not use it: other methods, authentication,
  `endOfBodyReached()`; **MQTT** as the libraries do not: wills, `publish_P()`,
  `setStream()`.
- **The gateway's own topics** `online` and those of sub-devices: their lengths
  meet buffers of the same kind as the ones in `TopicCodec`.
- **Memory layout**: what lies behind an array that overflows, and what a freed
  string still holds. A byte-level tool finds these sooner than a model; the
  models stop where the array ends (`overrun`, `stray`, `RequestsFit`).
