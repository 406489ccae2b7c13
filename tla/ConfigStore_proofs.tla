------------------------- MODULE ConfigStore_proofs -------------------------
(***************************************************************************)
(* Proofs about ConfigStore, for any users, networks and servers: whatever *)
(* power cuts and failed opens do to the file, no boot reads a mixture of  *)
(* two configurations that joins a network, and seen through the boots the *)
(* file changes in one step or is lost.                                    *)
(*                                                                         *)
(* The inductive invariant StoreInv ties RAM to the file while the gateway *)
(* is online, and says what an operation may be writing.                   *)
(***************************************************************************)
EXTENDS ConfigStore, TLAPS

\* A configuration that joins a network is one user's with one server.
Sound(c) == Joins(c) => Consistent(c)

\* What the three operations have in RAM while they write.
Writing ==
    \/ job = "save" /\ \E u \in Users : ram = FormOf(u)
    \/ job = "redirect" /\ Consistent(ram) /\ flash = ram /\ target \in Servers
    \/ job = "clear" /\ ram.ssid = Blank

StoreInv ==
    /\ TypeOK
    /\ flash # Absent => Sound(flash)
    /\ pc = "trying" => ram = RamAtBoot
    /\ pc = "online" => Consistent(ram) /\ flash = ram
    /\ pc = "write" => Writing

-----------------------------------------------------------------------------
(* Configurations. *)

\* A form is a configuration of its user, with the user's own server.
LEMMA FormFacts ==
    ASSUME NEW u \in Users
    PROVE  /\ FormOf(u) \in [Fields -> Values]
           /\ Consistent(FormOf(u)) /\ Joins(FormOf(u))
           /\ FormOf(u).ssid = u /\ FormOf(u).cloudip = HomeOf[u]
  BY HomeAssumption DEF FormOf, PasswordOf, Fields, Values, Consistent, Joins

\* A consistent configuration joins the network it names.
LEMMA ConsistentJoins == \A c : Consistent(c) => Joins(c)
  BY DEF Consistent, Joins

\* A redirect of a consistent configuration is consistent, and leaves it to its
\* owner.
LEMMA RedirectedFacts ==
    ASSUME NEW c \in [Fields -> Values], Consistent(c), target \in Servers
    PROVE  /\ Redirected(c) \in [Fields -> Values]
           /\ Consistent(Redirected(c))
           /\ Redirected(c).ssid = c.ssid /\ Redirected(c).cloudip = target
  BY DEF Redirected, Fields, Values, Consistent

\* A cleared configuration joins no network.
LEMMA ClearedFacts ==
    ASSUME NEW c \in [Fields -> Values]
    PROVE  /\ WifiCleared(c) \in [Fields -> Values] /\ WifiCleared(c).ssid = Blank
  BY DEF WifiCleared, Fields, Values

\* What is being written is sound, and joins a network unless it is cleared.
LEMMA ContentFacts ==
    ASSUME TypeOK, Writing
    PROVE  /\ Content \in [Fields -> Values]
           /\ Content.ssid = Blank \/ Consistent(Content)
<1>1. CASE job = "save"
  BY <1>1, FormFacts DEF Writing, Content, TypeOK
<1>2. CASE job = "redirect"
  BY <1>2, RedirectedFacts DEF Writing, Content, TypeOK
<1>3. CASE job = "clear"
  BY <1>3 DEF Writing, Content, TypeOK
<1> QED  BY <1>1, <1>2, <1>3 DEF Writing

\* The network is written after the identity, the key and the server: if the
\* fields written so far join a network, they are those of the whole.
LEMMA PrefixFacts ==
    ASSUME TypeOK, Writing, NEW n \in 0..6
    PROVE  /\ Prefix(n) \in [Fields -> Values]
           /\ Joins(Prefix(n)) =>
                 /\ Consistent(Content) /\ Consistent(Prefix(n))
                 /\ Prefix(n).ssid = Content.ssid /\ Prefix(n).cloudip = Content.cloudip
<1>1. Content \in [Fields -> Values] /\ (Content.ssid = Blank \/ Consistent(Content))
  BY ContentFacts
<1> DEFINE Done(f) == \E i \in 1..n : WriteOrder[i] = f
<1>2. \A f \in Fields : Prefix(n)[f] = IF Done(f) THEN Content[f] ELSE Blank
  BY DEF Prefix
<1>3. Prefix(n) \in [Fields -> Values]
  BY <1>1 DEF Prefix, Values, Fields
<1>4. Done("ssid") => Done("gwindex") /\ Done("apikey") /\ Done("cloudip") /\ Done("cloudport")
  <2>1. n \in {0, 1, 2, 3, 4, 5, 6}
    OBVIOUS
  <2>2. Done("ssid") => n >= 5
    BY <2>1 DEF WriteOrder
  <2>3. n >= 5 => Done("gwindex") /\ Done("apikey") /\ Done("cloudip") /\ Done("cloudport")
    BY <2>1 DEF WriteOrder
  <2> QED  BY <2>2, <2>3
<1> HIDE DEF Done
<1>5. ASSUME Joins(Prefix(n))
      PROVE  /\ Consistent(Content) /\ Consistent(Prefix(n))
             /\ Prefix(n).ssid = Content.ssid /\ Prefix(n).cloudip = Content.cloudip
  <2>1. Done("ssid") /\ Prefix(n).ssid = Content.ssid /\ Content.ssid \in Users
    BY <1>2, <1>5, BlankAssumption DEF Joins, Fields
  <2>2. Consistent(Content)
    BY <1>1, <2>1, BlankAssumption
  <2>3. /\ Prefix(n).gwindex = Content.gwindex /\ Prefix(n).apikey = Content.apikey
        /\ Prefix(n).cloudip = Content.cloudip /\ Prefix(n).cloudport = Content.cloudport
    BY <1>2, <1>4, <2>1 DEF Fields
  <2> QED  BY <1>5, <2>1, <2>2, <2>3 DEF Consistent, Joins
<1> QED  BY <1>3, <1>5

-----------------------------------------------------------------------------
(* The invariant. *)

\* A new gateway has no file, or the one a user saved.
LEMMA InitStoreInv == Init => StoreInv
<1> SUFFICES ASSUME Init  PROVE StoreInv
  OBVIOUS
<1>1. flash # Absent => flash \in [Fields -> Values] /\ Consistent(flash)
  BY FormFacts DEF Init
<1>2. ram \in [Fields -> Values]
  BY DEF Init, AllBlank, Values
<1>3. pc = "boot" /\ job = "none" /\ written = 0 /\ target = Blank /\ stable = FALSE
  BY DEF Init
<1>4. TypeOK
  <2>1. flash \in [Fields -> Values] \cup {Absent}
    BY <1>1
  <2>2. target \in Servers \cup {Blank} /\ stable \in BOOLEAN
    BY <1>3
  <2> QED  BY <1>2, <1>3, <2>1, <2>2 DEF TypeOK
<1> QED  BY <1>1, <1>3, <1>4 DEF StoreInv, Sound

\* StoreInv is inductive.
LEMMA StepStoreInv == StoreInv /\ [Next]_vars => StoreInv'
<1> SUFFICES ASSUME StoreInv, [Next]_vars  PROVE StoreInv'
  OBVIOUS
<1> USE DEF StoreInv
<1>1. CASE Boot
  <2>1. RamAtBoot \in [Fields -> Values] /\ RamAtBoot' = RamAtBoot
    BY <1>1 DEF Boot, RamAtBoot, AllBlank, TypeOK, Values, Fields
  <2> QED  BY <1>1, <2>1 DEF Boot, TypeOK, Sound
<1>2. CASE GoOnline
  <2>1. Joins(ram) /\ ram = RamAtBoot
    BY <1>2 DEF GoOnline
  <2>2. flash # Absent /\ ram = flash
    BY <2>1, BlankAssumption DEF RamAtBoot, AllBlank, Joins, Fields
  <2> QED  BY <1>2, <2>1, <2>2 DEF GoOnline, TypeOK, Sound
<1>3. CASE TurnToAP
  BY <1>3 DEF TurnToAP, TypeOK, Sound
<1>4. CASE Redirect
  BY <1>4 DEF Redirect, OpenFor, TypeOK, Sound, Writing
<1>5. CASE ClearWifi
  BY <1>5, ClearedFacts DEF ClearWifi, OpenFor, TypeOK, Sound, Writing
<1>6. CASE SaveForm
  BY <1>6, FormFacts DEF SaveForm, TypeOK, Sound, Writing
<1>7. CASE WriteField
  BY <1>7 DEF WriteField, FieldsToWrite, WriteOrder, TypeOK, Sound, Writing
<1>8. CASE CloseFile
  <2>1. flash' = Content /\ UNCHANGED <<job, written, ram, target, stable>> /\ pc' = "reset"
    BY <1>8 DEF CloseFile, AfterClose
  <2>2. Content \in [Fields -> Values] /\ Sound(Content)
    BY <1>8, ContentFacts, BlankAssumption DEF CloseFile, Sound, Joins
  <2> QED  BY <2>1, <2>2 DEF TypeOK
<1>9. CASE Reset
  BY <1>9 DEF Reset, TypeOK, Sound
<1>10. CASE PowerCut
  <2>1. pc' = "boot" /\ UNCHANGED <<job, written, ram, target, stable>>
    BY <1>10 DEF PowerCut
  <2>2. flash' = flash \/ (pc = "write" /\ flash' = Prefix(written))
    BY <1>10 DEF PowerCut
  <2>3. pc = "write" => Prefix(written) \in [Fields -> Values] /\ Sound(Prefix(written))
    BY PrefixFacts DEF TypeOK, Sound
  <2> QED  BY <2>1, <2>2, <2>3 DEF TypeOK, Sound
<1>11. CASE StableComes
  BY <1>11 DEF StableComes, TypeOK, Sound, Writing, RamAtBoot
<1>12. CASE UNCHANGED vars
  BY <1>12 DEF vars, TypeOK, Sound, Writing, RamAtBoot
<1> QED
  BY <1>1, <1>2, <1>3, <1>4, <1>5, <1>6, <1>7, <1>8, <1>9, <1>10, <1>11, <1>12 DEF Next

\* Every reachable state satisfies StoreInv.
THEOREM StoreInvariance == Spec => []StoreInv
  BY InitStoreInv, StepStoreInv, PTL DEF Spec

\* TypeOK, for any users and servers: gwInit() and the three operations leave
\* in every field a value that somebody gave it.
THEOREM StoreTypeCorrect == Spec => []TypeOK
<1>1. StoreInv => TypeOK
  BY DEF StoreInv
<1> QED  BY <1>1, StoreInvariance, PTL

\* A gateway that gets into a network (gwWifiConfig()) speaks to one server
\* under the identity of the network's user, whatever was cut short before, and
\* works with what its file holds.
THEOREM OnlineConsistentHolds == Spec => []OnlineConsistent
<1>1. StoreInv => OnlineConsistent
  BY DEF StoreInv, OnlineConsistent
<1> QED  BY <1>1, StoreInvariance, PTL

-----------------------------------------------------------------------------
(* The store implements AtomicConfig. *)

\* What the boots see of a sound file: its owner and server if it joins a
\* network, and otherwise nothing of use.
LEMMA StoredFacts ==
    ASSUME flash # Absent => Sound(flash)
    PROVE  /\ flash # Absent /\ Joins(flash) =>
                 Stored = [owner |-> flash.ssid, server |-> flash.cloudip]
           /\ flash = Absent \/ ~Joins(flash) => Stored = Unusable
  BY DEF Stored, Sound

\* A step of the store changes the configuration in one step, loses it, or
\* leaves it alone.
LEMMA AtomicStep ==
    ASSUME StoreInv, StoreInv', [Next]_vars
    PROVE  [Atomic!Next]_Stored
<1> USE DEF StoreInv
<1>1. CASE flash' = flash
  <2>1. Stored' = Stored
    BY <1>1 DEF Stored
  <2> QED  BY <2>1
<1>2. CASE flash' = Absent
  <2>1. Atomic!Lose
    BY <1>2 DEF Stored, Atomic!Lose
  <2> QED  BY <2>1 DEF Atomic!Next
<1>3. CASE pc = "write" /\ flash' # Absent /\ (flash' = Content \/ flash' = Prefix(written))
  <2>1. Joins(flash') => /\ Consistent(Content) /\ Consistent(flash')
                         /\ flash'.ssid = Content.ssid /\ flash'.cloudip = Content.cloudip
    BY <1>3, ContentFacts, PrefixFacts, BlankAssumption DEF TypeOK, Joins
  <2>2. CASE ~Joins(flash')
    <3>1. Atomic!Lose
      BY <1>3, <2>2 DEF Stored, Atomic!Lose
    <3> QED  BY <3>1 DEF Atomic!Next
  <2>3. CASE Joins(flash')
    <3>1. Stored' = [owner |-> Content.ssid, server |-> Content.cloudip]
      BY <1>3, <2>1, <2>3 DEF Stored
    <3>2. CASE job = "save"
      <4>1. Atomic!Save
        BY <1>3, <3>1, <3>2, FormFacts DEF Writing, Content, Atomic!Save
      <4> QED  BY <4>1 DEF Atomic!Next
    <3>3. CASE job = "redirect"
      <4>1. Consistent(flash) /\ flash \in [Fields -> Values] /\ target \in Servers /\ flash = ram
        BY <1>3, <3>3 DEF Writing, TypeOK
      <4>2. Stored = [owner |-> flash.ssid, server |-> flash.cloudip] /\ Stored # Unusable
        BY <4>1, ConsistentJoins, StoredFacts, DistinctAssumption DEF Consistent
      <4>3. Content.ssid = flash.ssid /\ Content.cloudip = target
        BY <4>1, <3>3, RedirectedFacts DEF Content
      <4>4. Atomic!Redirect
        BY <3>1, <4>1, <4>2, <4>3 DEF Atomic!Redirect
      <4> QED  BY <4>4 DEF Atomic!Next
    <3>4. CASE job = "clear"
      BY <1>3, <2>1, <2>3, <3>4, BlankAssumption DEF Writing, Content, Consistent
    <3> QED  BY <1>3, <3>2, <3>3, <3>4 DEF Writing
  <2> QED  BY <2>2, <2>3
<1>4. \/ flash' = flash \/ flash' = Absent
      \/ pc = "write" /\ (flash' = Content \/ flash' = Prefix(written))
  BY DEF Next, vars, Boot, GoOnline, TurnToAP, Redirect, ClearWifi, SaveForm, WriteField, CloseFile,
         Reset, PowerCut, StableComes
<1> QED  BY <1>1, <1>2, <1>3, <1>4

\* The three operations on the file, the boots and the power cuts together
\* implement the atomic configuration.
THEOREM ImplementsAtomic == Spec => AtomicSpec
<1>1. Init => Atomic!Init
  <2> SUFFICES ASSUME Init  PROVE Atomic!Init
    OBVIOUS
  <2>1. CASE flash = Absent
    BY <2>1 DEF Stored, Atomic!Init
  <2>2. CASE flash # Absent
    <3>1. PICK u \in Users : flash = FormOf(u)
      BY <2>2 DEF Init
    <3>2. Stored = [owner |-> u, server |-> HomeOf[u]]
      BY <2>2, <3>1, FormFacts DEF Stored
    <3> QED  BY <3>2, HomeAssumption DEF Atomic!Init, Atomic!Configs
  <2> QED  BY <2>1, <2>2
<1>2. StoreInv /\ StoreInv' /\ [Next]_vars => [Atomic!Next]_Stored
  BY AtomicStep
<1> QED  BY <1>1, <1>2, StoreInvariance, PTL DEF Spec, AtomicSpec, Atomic!Spec
-----------------------------------------------------------------------------
(* A redirect arrives. *)

\* The file, or what is being written to it, brings the gateway to server s.
LeadsTo(c, s) == Joins(c) /\ c.cloudip = s /\ c.cloudport = s

OnCourse(s) ==
    \/ pc = "write" /\ job = "redirect" /\ target = s /\ Joins(ram)
    \/ pc \in {"reset", "boot", "trying"} /\ flash # Absent /\ LeadsTo(flash, s)

\* The steps left: the writes, the close, the reset, the boot, the network.
StepsLeft ==
    CASE pc = "write" -> 10 - written
      [] pc = "reset" -> 3
      [] pc = "boot" -> 2
      [] pc = "trying" -> 1
      [] OTHER -> 0

Arrived(s) == pc = "online" /\ ram.cloudip = s /\ ram.cloudport = s

\* Once nothing fails any more, whatever the gateway does while it follows a
\* redirect (gwPayloadAckuseridParse(), gwInit(), gwWifiConfig()) brings it
\* nearer to the server it was sent to: no step leaves the course or stays
\* where it is.  RedirectFollowed adds only that the gateway goes on.
RedirectOnCourse ==
    [][stable =>
         \A s \in Servers :
             OnCourse(s) =>
                 /\ stable'
                 /\ (OnCourse(s)' /\ StepsLeft' < StepsLeft) \/ Arrived(s)']_vars

\* What a redirect writes leads to its server.
LEMMA RedirectLeads ==
    ASSUME StoreInv, pc = "write", job = "redirect"
    PROVE  Content \in [Fields -> Values] /\ LeadsTo(Content, target)
<1>1. ram \in [Fields -> Values] /\ Consistent(ram) /\ target \in Servers
  BY DEF StoreInv, TypeOK, Writing
<1>2. Content = Redirected(ram)
  BY DEF Content
<1> QED  BY <1>1, <1>2, RedirectedFacts DEF LeadsTo, Consistent, Joins

\* Every step of a stable gateway on course takes it one step nearer.
LEMMA CourseStep ==
    ASSUME NEW s \in Servers, StoreInv, [Next]_vars, stable, OnCourse(s), vars' # vars
    PROVE  stable' /\ ((OnCourse(s)' /\ StepsLeft' < StepsLeft) \/ Arrived(s)')
<1>1. CASE pc = "write"
  <2>1. job = "redirect" /\ target = s /\ Joins(ram) /\ written \in 0..6
    BY <1>1 DEF OnCourse, StoreInv, TypeOK
  <2>2. WriteField \/ CloseFile
    BY <1>1 DEF Next, Boot, GoOnline, TurnToAP, Redirect, ClearWifi, SaveForm, Reset, PowerCut,
           StableComes, vars
  <2>3. CASE WriteField
    <3>1. written' = written + 1 /\ UNCHANGED <<pc, job, ram, target, stable>>
      BY <2>3 DEF WriteField
    <3> QED  BY <1>1, <2>1, <3>1 DEF OnCourse, StepsLeft, Joins
  <2>4. CASE CloseFile
    <3>1. flash' = Content /\ pc' = "reset" /\ stable' = stable
      BY <2>4 DEF CloseFile, AfterClose
    <3>2. flash' # Absent /\ LeadsTo(flash', s)
      BY <1>1, <2>1, <3>1, RedirectLeads, DistinctAssumption
    <3>3. OnCourse(s)'
      BY <3>1, <3>2 DEF OnCourse, LeadsTo, Joins
    <3>4. StepsLeft' = 3 /\ StepsLeft = 10 - written
      BY <1>1, <3>1 DEF StepsLeft
    <3> QED  BY <2>1, <3>1, <3>3, <3>4
  <2> QED  BY <2>2, <2>3, <2>4
<1>2. CASE pc \in {"reset", "boot", "trying"}
  <2>1. flash # Absent /\ LeadsTo(flash, s) /\ (pc = "trying" => ram = flash)
    BY <1>2 DEF OnCourse, StoreInv, RamAtBoot
  <2>2. Reset \/ Boot \/ GoOnline
    BY <1>2, <2>1 DEF Next, TurnToAP, Redirect, ClearWifi, SaveForm, WriteField, CloseFile,
           PowerCut, StableComes, vars, LeadsTo
  <2>3. flash' = flash /\ stable' = stable
    BY <2>2 DEF Reset, Boot, GoOnline
  <2>4. CASE pc' = "online"
    BY <1>2, <2>1, <2>2, <2>3, <2>4 DEF Reset, Boot, GoOnline, Arrived, LeadsTo
  <2>5. CASE pc' # "online"
    BY <1>2, <2>1, <2>2, <2>3, <2>5 DEF Reset, Boot, GoOnline, OnCourse, LeadsTo, Joins, StepsLeft
  <2> QED  BY <2>3, <2>4, <2>5
<1> QED  BY <1>1, <1>2 DEF OnCourse

\* A redirect that starts when nothing fails any more stays on its course to
\* the server it names, for any users and servers.
THEOREM RedirectOnCourseHolds == Spec => RedirectOnCourse
<1>1. StoreInv /\ [Next]_vars =>
        [stable =>
           \A s \in Servers :
             OnCourse(s) =>
                 /\ stable'
                 /\ (OnCourse(s)' /\ StepsLeft' < StepsLeft) \/ Arrived(s)']_vars
  BY CourseStep
<1> QED  BY <1>1, StoreInvariance, PTL DEF Spec, RedirectOnCourse
=============================================================================
