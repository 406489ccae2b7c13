---------------------------- MODULE ConfigStore ----------------------------
(***************************************************************************)
(* /storage/configinfo.bin of the gateway (gatewayLib/                     *)
(* QiaqiaMqttGateway.cpp): six fields that gwInit() reads at every boot,   *)
(* and that three operations rewrite one after the other before a reset:   *)
(* the user's form in AP mode, a redirect of the cloud, and the command    *)
(* that clears the WiFi network.  Power may go at any moment.              *)
(*                                                                         *)
(* A field's value is named after the user or the server it came from, so  *)
(* that a mixture of two configurations shows.                             *)
(***************************************************************************)
EXTENDS Integers, Sequences

CONSTANTS
    Users,     \* whoever may fill in the form, each with one configuration
    OpenNets,  \* the users whose network asks for no password
    Servers,   \* the cloud servers
    HomeOf,    \* the server in a user's configuration
    Blank,     \* a field of zeros
    Absent,    \* no file
    Unusable   \* of no use for joining a network

ASSUME HomeAssumption == HomeOf \in [Users -> Servers] /\ OpenNets \subseteq Users
ASSUME BlankAssumption == Blank \notin Users \cup Servers
VARIABLES
    pc,        \* boot, trying, online, ap, write, reset
    job,       \* the operation whose fields are being written
    written,   \* fields written to the open file
    ram,       \* m_GwInfo, the fields of the file
    target,    \* _cloudip and _cloudport
    flash,     \* the file as a boot would read it
    stable     \* from now on power, flash and network do not fail

vars == <<pc, job, written, ram, target, flash, stable>>

Fields == {"gwindex", "apikey", "cloudip", "cloudport", "ssid", "password"}

Values == Users \cup Servers \cup {Blank}

ASSUME DistinctAssumption ==
    /\ Absent \notin [Fields -> Values]
    /\ Unusable \notin [owner : Users, server : Servers]

WriteOrder_WifiFirst == <<"ssid", "password", "gwindex", "apikey", "cloudip", "cloudport">>

\* The order of the six writes, and of the reads in gwInit().
WriteOrder == <<"gwindex", "apikey", "cloudip", "cloudport", "ssid", "password">>

FieldsToWrite_OneMore == Len(WriteOrder) + 1

FieldsToWrite == Len(WriteOrder)

AllBlank == [f \in Fields |-> Blank]

PasswordOf(u) == IF u \in OpenNets THEN Blank ELSE u

FormOf(u) ==
    [f \in Fields |-> CASE f \in {"cloudip", "cloudport"} -> HomeOf[u]
                         [] f = "password" -> PasswordOf(u)
                         [] OTHER -> u]

\* The network of a user lets in who knows its name and its password.
Joins(c) == c.ssid \in Users /\ c.password = PasswordOf(c.ssid)

Redirected_OldServer(c) == c
Redirected_AddressOnly(c) == [c EXCEPT !.cloudip = target]

\* What a redirect writes: the fields in RAM, but the server it was sent.
Redirected(c) == [c EXCEPT !.cloudip = target, !.cloudport = target]

WifiCleared(c) == [c EXCEPT !.ssid = Blank, !.password = Blank]

\* The six values an operation writes.
Content == IF job = "redirect" THEN Redirected(ram) ELSE ram

\* The file with its first n fields written and nothing behind them.
Prefix(n) ==
    [f \in Fields |-> IF \E i \in 1..n : WriteOrder[i] = f THEN Content[f] ELSE Blank]

Init ==
    /\ pc = "boot" /\ job = "none" /\ written = 0
    /\ ram = AllBlank /\ target = Blank
    /\ flash \in {Absent} \cup {FormOf(u) : u \in Users}
    /\ stable = FALSE

-----------------------------------------------------------------------------
RamAtBoot == IF flash = Absent THEN AllBlank ELSE flash

\* gwInit()
Boot ==
    /\ pc = "boot"
    /\ ram' = RamAtBoot
    /\ target' = Blank /\ job' = "none" /\ written' = 0
    /\ pc' = "trying"
    /\ UNCHANGED <<flash, stable>>

\* gwWifiConfig() joins the network of the configuration; the MQTT client then
\* speaks to the server of the configuration with its credentials.
GoOnline ==
    /\ pc = "trying" /\ Joins(ram)
    /\ pc' = "online"
    /\ UNCHANGED <<job, written, ram, target, flash, stable>>

\* WiFi or the server cannot be reached: AP mode.
TurnToAP ==
    /\ \/ pc = "trying" /\ ~Joins(ram)
       \/ pc \in {"trying", "online"} /\ ~stable
    /\ pc' = "ap"
    /\ UNCHANGED <<job, written, ram, target, flash, stable>>

\* The file is opened for an operation, or the open fails and the gateway
\* resets all the same.
OpenFor(operation) ==
    \/ pc' = "write" /\ job' = operation /\ written' = 0
    \/ ~stable /\ pc' = "reset" /\ UNCHANGED <<job, written>>

\* gwPayloadAckuseridParse(), cmd "redirect": another server.
Redirect ==
    /\ pc = "online"
    /\ \E s \in Servers \ {ram.cloudip} : target' = s
    /\ OpenFor("redirect")
    /\ UNCHANGED <<ram, flash, stable>>

\* gwMQTTDataParse(), 1009.
ClearWifi ==
    /\ pc = "online"
    /\ ram' = WifiCleared(ram)
    /\ OpenFor("clear")
    /\ UNCHANGED <<target, flash, stable>>

\* gwAPModeConfig(), GET /A: the form goes to RAM, the file is deleted and
\* created again.  Without a new file only the page reports it.
SaveForm ==
    /\ pc = "ap"
    /\ \E u \in Users : ram' = FormOf(u)
    /\ \/ flash' = Absent /\ pc' = "write" /\ job' = "save" /\ written' = 0
       \/ ~stable /\ flash' \in {flash, Absent} /\ pc' = "reset" /\ UNCHANGED <<job, written>>
    /\ UNCHANGED <<target, stable>>

\* One of the six writes.
WriteField ==
    /\ pc = "write" /\ written < FieldsToWrite
    /\ written' = written + 1
    /\ UNCHANGED <<pc, job, ram, target, flash, stable>>

AfterClose_WithoutReset == IF job = "save" THEN "reset" ELSE "online"

AfterClose == "reset"

\* The close that follows the last write.  Every operation goes on to a reset,
\* the form's after its page is sent.
CloseFile ==
    /\ pc = "write" /\ written = FieldsToWrite
    /\ flash' = Content
    /\ pc' = AfterClose
    /\ UNCHANGED <<job, written, ram, target, stable>>

\* PRCMSOCReset(): after an operation, after GET /abandon, and when the windows
\* of AP mode are over.
Reset ==
    /\ pc \in {"reset", "ap"}
    /\ pc' = "boot"
    /\ UNCHANGED <<job, written, ram, target, flash, stable>>

\* The power goes.  Of a file that was being written the boot finds either what
\* it held before the open or the fields written so far.
PowerCut ==
    /\ pc # "boot" /\ ~stable
    /\ flash' \in IF pc = "write" THEN {flash, Prefix(written)} ELSE {flash}
    /\ pc' = "boot"
    /\ UNCHANGED <<job, written, ram, target, stable>>

StableComes ==
    /\ ~stable /\ stable' = TRUE
    /\ UNCHANGED <<pc, job, written, ram, target, flash>>

Next ==
    \/ Boot \/ GoOnline \/ TurnToAP \/ Redirect \/ ClearWifi \/ SaveForm
    \/ WriteField \/ CloseFile \/ Reset \/ PowerCut \/ StableComes

Spec == Init /\ [][Next]_vars

\* The program does not stop half way.  Nobody has to fill in the form, and the
\* cloud has to send nothing.
Fairness == WF_vars(Boot) /\ WF_vars(GoOnline) /\ WF_vars(WriteField) /\ WF_vars(CloseFile)
            /\ WF_vars(Reset)

FairSpec == Spec /\ Fairness

-----------------------------------------------------------------------------
(* What the store must achieve. *)

\* Every field holds a value somebody gave it, in RAM and in the file, and only
\* an operation on the file leaves the count of its writes (gwInit()).
TypeOK ==
    /\ pc \in {"boot", "trying", "online", "ap", "write", "reset"}
    /\ job \in {"none", "save", "redirect", "clear"}
    /\ written \in 0..6
    /\ ram \in [Fields -> Values]
    /\ target \in Servers \cup {Blank}
    /\ flash \in [Fields -> Values] \cup {Absent}
    /\ stable \in BOOLEAN

\* Identity, key and network of one user, and one server.
Consistent(c) ==
    /\ c.ssid \in Users
    /\ c.gwindex = c.ssid /\ c.apikey = c.ssid /\ c.password = PasswordOf(c.ssid)
    /\ c.cloudip \in Servers /\ c.cloudport = c.cloudip

\* Whatever power cuts and failed opens left in the file, a gateway that gets
\* into a network speaks to one server, under the identity of the user whose
\* network it is: the network is written last, so a torn file joins none.  And
\* it would come back from a power cut as it is: what changes the file or what
\* was read of it goes on to a reset.
OnlineConsistent == pc = "online" => Consistent(ram) /\ flash = ram

\* A redirect that starts when nothing fails any more ends with the gateway
\* online at the very server it was sent to, after the six writes and a reset.
RedirectFollowed ==
    \A s \in Servers :
        (stable /\ pc = "write" /\ job = "redirect" /\ target = s /\ Joins(ram))
            ~> (pc = "online" /\ ram.cloudip = s /\ ram.cloudport = s)

\* Seen through the boots that use it, the configuration changes in one step or
\* is lost (AtomicConfig).
Stored ==
    IF flash = Absent THEN Unusable
    ELSE IF ~Joins(flash) THEN Unusable
    ELSE IF Consistent(flash) THEN [owner |-> flash.ssid, server |-> flash.cloudip]
    ELSE flash

Atomic == INSTANCE AtomicConfig WITH cfg <- Stored

AtomicSpec == Atomic!Spec
=============================================================================
