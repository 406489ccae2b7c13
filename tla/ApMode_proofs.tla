--------------------------- MODULE ApMode_proofs ---------------------------
(***************************************************************************)
(* Proofs about ApMode, for any windows, buffers and lines.  Which         *)
(* characters of a line leave the buffer, and that every request is        *)
(* honoured exactly once in a visit that wrote none outside, need nothing  *)
(* of the lines that clients send.  Whether the form is taken depends on   *)
(* the length of its request line alone.                                   *)
(*                                                                         *)
(* Two invariants beside the types: Understood follows a request up to the *)
(* byte that completes it, Reading the index through every line.           *)
(***************************************************************************)
EXTENDS ApMode, TLAPS

\* No request line makes the index wrap before its last character is stored.
RequestLinesFit == \A r \in Requests : \A n \in RequestLengths[r] : n <= IndexMax + 1

Untouched == resetflag = 0 /\ saves = 0

\* The characters of the line that were read; the carriage return is none.
Characters == IF read <= len THEN read ELSE len

\* The characters held are those read, and the index has not gone beyond the
\* place before the buffer.
Counted ==
    /\ held = Characters /\ held <= IndexMax + 1
    /\ index = IF held <= IndexMax THEN held ELSE -(IndexMax + 1)

\* While nothing was written outside of the buffer, or where no request line
\* can do so, the request is known once its text is complete.
Understood ==
    at = "inner" /\ (RequestLinesFit \/ ~stray) =>
        /\ line = "request" => Counted /\ len > 1 /\ len \in RequestLengths[request]
        /\ IF line = "request" /\ held < len - 1 THEN Untouched ELSE Honoured

\* The index, once around, after n characters of a line.
IndexAfter(n) == IF n <= IndexMax THEN n ELSE n - 2 * (IndexMax + 1)

Reading ==
    at = "inner" =>
        (Characters <= 2 * IndexMax + 1 => index = IndexAfter(Characters))

-----------------------------------------------------------------------------
\* The constants as the steps use them.
LEMMA ConstantFacts ==
    /\ Window \in Nat /\ LongWindow \in Nat /\ Window <= LongWindow
    /\ MaxHeaders \in Nat /\ IndexMax \in Nat /\ BufferSize \in Nat /\ IndexMax < BufferSize
BY WindowAssumption, HeadersAssumption, IndexAssumption

LEMMA LengthFacts ==
    /\ \A r \in Requests : \A n \in RequestLengths[r] : n \in Nat /\ n > 1
    /\ \A n \in HeaderLengths : n \in Nat /\ n > 0
<1>1. \A r \in Requests : RequestLengths[r] \subseteq Nat \ {0, 1}
  BY LengthAssumption DEF Requests
<1>2. \A n \in Nat \ {0, 1} : n \in Nat /\ n > 1
  OBVIOUS
<1>3. QED
  BY <1>1, <1>2, LengthAssumption

\* Zero is in every range.
LEMMA Ranges ==
    /\ 0 \in 0..(LongWindow + 1) /\ 0 \in 0..MaxHeaders /\ 0 \in -(IndexMax + 1)..IndexMax
    /\ 0 \in 0..3 /\ 0 \in 0..2 /\ 0 \in Nat /\ \A n \in Nat : 0 \in 0..(n + 1)
BY ConstantFacts

\* Power-up has all three.
LEMMA InitAp == Init => TypeOK /\ Understood /\ Reading
<1> SUFFICES ASSUME Init  PROVE TypeOK /\ Understood /\ Reading
  OBVIOUS
<1>1. TypeOK
  <2>1. isLoop \in BOOLEAN /\ request \in Requests /\ stray \in BOOLEAN
    BY DEF Init, Requests
  <2>2. QED
    BY <2>1, Ranges DEF Init, TypeOK
<1>2. Understood /\ Reading
  BY DEF Init, Understood, Reading
<1>3. QED
  BY <1>1, <1>2

\* A client comes, with the first byte of its request line still to be read.
LEMMA Accepted ==
    ASSUME AcceptClient
    PROVE  /\ request' \in Requests /\ len' \in RequestLengths[request']
           /\ len' \in Nat /\ len' > 1
           /\ at' = "inner" /\ index' = 0 /\ held' = 0 /\ read' = 0 /\ line' = "request"
           /\ resetflag' = 0 /\ saves' = 0 /\ headers' = 0 /\ stray' = FALSE
           /\ UNCHANGED <<age, isLoop>>
BY LengthFacts DEF AcceptClient

\* Types need nothing of the lines: the index has its range although it wraps.
LEMMA TypeStep == TypeOK /\ [Next]_vars => TypeOK'
<1> SUFFICES ASSUME TypeOK, [Next]_vars  PROVE TypeOK'
  OBVIOUS
<1> USE ConstantFacts
<1>1. CASE WindowResets \/ UNCHANGED vars
  BY <1>1 DEF WindowResets, TypeOK, lineVars, vars
<1>2. CASE AcceptClient
  <2>1. read' \in 0..(len' + 1) /\ len' \in Nat
    BY <1>2, Ranges, Accepted
  <2>2. age' \in 0..(LongWindow + 1) /\ isLoop' \in BOOLEAN /\ stray' \in BOOLEAN
    BY <1>2, Accepted DEF TypeOK
  <2>3. QED
    BY <1>2, <2>1, <2>2, Accepted, Ranges DEF TypeOK
<1>3. CASE Reboot
  <2>1. /\ at' = "outer" /\ age' = 0 /\ isLoop' = FALSE /\ resetflag' = 0
        /\ UNCHANGED <<request, stray, saves, index, held, line, len, read, headers>>
    BY <1>3 DEF Reboot, lineVars
  <2>2. isLoop' \in BOOLEAN
    BY <2>1
  <2>3. QED
    BY <2>1, <2>2, Ranges DEF TypeOK
<1>4. CASE Tick
  BY <1>4 DEF Tick, TypeOK, lineVars
<1>5. CASE ReadChar \/ ReadReturn
  <2>1. resetflag' \in 0..3 /\ saves' \in 0..2
    BY <1>5 DEF ReadChar, ReadReturn, Look, TypeOK
  <2>2. index' \in -(IndexMax + 1)..IndexMax
    BY <1>5 DEF ReadChar, ReadReturn, NextIndex, TypeOK
  <2>3. held' \in Nat /\ read' \in 0..(len' + 1) /\ len' = len
    BY <1>5 DEF ReadChar, ReadReturn, TypeOK
  <2>4. stray' \in BOOLEAN
    BY <1>5 DEF ReadChar, ReadReturn, TypeOK
  <2>5. UNCHANGED <<at, age, isLoop, request, line, headers>>
    BY <1>5 DEF ReadChar, ReadReturn
  <2>6. QED
    BY <2>1, <2>2, <2>3, <2>4, <2>5 DEF TypeOK
<1>6. CASE ReadNewline
  <2>1. line' \in {"blank", "header"} /\ len' \in Nat /\ headers' \in 0..MaxHeaders
    BY <1>6, LengthFacts DEF ReadNewline, TypeOK
  <2>2. /\ index' = 0 /\ held' = 0 /\ read' = 0 /\ at' = at
        /\ UNCHANGED <<age, isLoop, resetflag, request, stray, saves>>
    BY <1>6 DEF ReadNewline, LineStart
  <2>3. QED
    BY <2>1, <2>2, Ranges DEF TypeOK
<1>7. CASE SendPage \/ ClientLeaves
  <2>1. /\ at' \in {"reset", "outer"} /\ isLoop' \in BOOLEAN
        /\ UNCHANGED <<age, resetflag, request, stray, saves, lineVars>>
    BY <1>7 DEF SendPage, ClientLeaves, ClientDone, TypeOK
  <2>2. QED
    BY <2>1 DEF TypeOK, lineVars
<1>8. QED
  BY <1>1, <1>2, <1>3, <1>4, <1>5, <1>6, <1>7 DEF Next

\* A byte of a line that the index still counts leaves the count right; of the
\* carriage return nothing is held.
LEMMA CountedByte ==
    ASSUME TypeOK, Counted, ReadChar \/ ReadReturn, ReadChar => held <= IndexMax
    PROVE  /\ Counted' /\ len' = len
           /\ ReadChar => held' = held + 1 /\ held' <= len
           /\ ReadReturn => held' = held /\ held = len
<1> USE ConstantFacts
<1>1. CASE ReadChar
  <2>1. /\ held' = held + 1 /\ held = read /\ index = held /\ held' <= len
        /\ index' = IF held' <= IndexMax THEN held' ELSE -(IndexMax + 1)
    BY <1>1 DEF ReadChar, Counted, Characters, NextIndex, TypeOK
  <2>2. Counted' /\ len' = len
    BY <1>1, <2>1 DEF ReadChar, Counted, Characters, TypeOK
  <2>3. ~ReadReturn
    BY <1>1 DEF ReadChar, ReadReturn, TypeOK
  <2>4. QED  BY <2>1, <2>2, <2>3
<1>2. CASE ReadReturn
  BY <1>2 DEF ReadChar, ReadReturn, Counted, Characters, TypeOK
<1>3. QED
  BY <1>1, <1>2

\* A visit that wrote outside of the buffer remains one, and only a character
\* makes it one.
LEMMA OutsideStays ==
    ASSUME TypeOK, ReadChar \/ ReadReturn
    PROVE  /\ stray => stray'
           /\ ReadChar /\ ~stray' => InBuffer(index)
<1>1. stray \in BOOLEAN
  BY DEF TypeOK
<1>2. CASE ReadChar
  <2>1. stray' = (stray \/ ~InBuffer(index))
    BY <1>2 DEF ReadChar
  <2>2. QED  BY <1>1, <2>1
<1>3. CASE ReadReturn /\ ~ReadChar
  BY <1>1, <1>3 DEF ReadReturn
<1>4. QED
  BY <1>2, <1>3

\* A request is understood at the one byte that completes it, and at no other;
\* the lines behind it change nothing, however long they are.
LEMMA UnderstoodStep == TypeOK /\ Understood /\ [Next]_vars => Understood'
<1> SUFFICES ASSUME TypeOK, Understood, [Next]_vars  PROVE Understood'
  OBVIOUS
<1> USE ConstantFacts
<1>1. CASE UNCHANGED vars
  BY <1>1 DEF vars, lineVars, Understood, Counted, Characters, Untouched, Honoured
<1>2. CASE WindowResets \/ Reboot \/ SendPage \/ ClientLeaves
  BY <1>2 DEF WindowResets, Reboot, SendPage, ClientLeaves, ClientDone, Understood
<1>3. CASE AcceptClient
  <2>1. 0 < len' - 1 /\ len' \in Nat /\ len' > 1
    <3>1. \A n \in Nat : n > 1 => 0 < n - 1
      OBVIOUS
    <3>2. QED  BY <1>3, <3>1, Accepted
  <2>2. Counted'
    BY <1>3, <2>1, Accepted DEF Counted, Characters
  <2>3. Untouched'
    BY <1>3, Accepted DEF Untouched
  <2>4. QED
    BY <1>3, <2>1, <2>2, <2>3, Accepted DEF Understood
<1>4. CASE Tick
  BY <1>4 DEF Tick, Understood, Counted, Characters, Untouched, Honoured, lineVars
<1>5. CASE ReadChar \/ ReadReturn
  <2> SUFFICES ASSUME at' = "inner" /\ (RequestLinesFit \/ ~stray')  PROVE Understood'
    BY DEF Understood
  <2>1. CASE line = "request"
    <3>1. /\ Counted /\ len > 1 /\ len \in RequestLengths[request]
          /\ at = "inner" /\ at' = "inner" /\ line' = line /\ request' = request
          /\ IF held < len - 1 THEN Untouched ELSE Honoured
      <4>1. at = "inner" /\ at' = "inner" /\ line' = line /\ request' = request
        BY <1>5 DEF ReadChar, ReadReturn
      <4>2. QED
        BY <1>5, <2>1, <4>1, OutsideStays DEF Understood
    <3>2. ReadChar => held <= IndexMax
      <4>1. CASE RequestLinesFit
        BY <3>1, <4>1 DEF RequestLinesFit, ReadChar, Counted, Characters, TypeOK
      <4>2. CASE ~stray'
        BY <3>1, <4>2, OutsideStays DEF InBuffer, Counted, TypeOK
      <4>3. QED  BY <4>1, <4>2
    <3>3. Counted' /\ len' = len
      BY <1>5, <3>1, <3>2, CountedByte
    <3>4. CASE ReadChar
      <4>1. held' = held + 1 /\ held' <= len /\ held \in Nat /\ len \in Nat
        BY <3>1, <3>2, <3>4, CountedByte DEF TypeOK
      <4>2. IF line' = "request" /\ held' < len' - 1 THEN Untouched' ELSE Honoured'
        BY <2>1, <3>1, <3>3, <3>4, <4>1
           DEF ReadChar, Look, EndsRequest, Untouched, Honoured, TypeOK, Requests
      <4>3. QED  BY <3>1, <3>3, <4>2 DEF Understood
    <3>5. CASE ReadReturn
      <4>1. held = len /\ len \in Nat
        BY <3>1, <3>2, <3>5, CountedByte DEF TypeOK
      <4>2. Honoured /\ UNCHANGED <<resetflag, saves, held>>
        BY <2>1, <3>1, <3>5, <4>1 DEF ReadReturn, Look, EndsRequest
      <4>3. Honoured' /\ ~(held' < len' - 1)
        BY <3>1, <3>3, <4>1, <4>2 DEF Honoured
      <4>4. QED  BY <3>1, <3>3, <4>3 DEF Understood
    <3>6. QED  BY <1>5, <3>4, <3>5
  <2>2. CASE line # "request"
    <3>1. UNCHANGED <<at, line, request, resetflag, saves>>
      BY <1>5, <2>2 DEF ReadChar, ReadReturn, Look
    <3>2. stray => stray'
      BY <1>5, OutsideStays
    <3>3. QED  BY <2>2, <3>1, <3>2 DEF Understood, Honoured
  <2>3. QED  BY <2>1, <2>2
<1>6. CASE ReadNewline
  <2>1. RequestLinesFit \/ ~stray => Honoured
    BY <1>6 DEF ReadNewline, Understood, Counted, Characters, TypeOK
  <2>2. line' # "request" /\ UNCHANGED <<request, resetflag, saves, stray>>
    BY <1>6 DEF ReadNewline
  <2>3. QED
    BY <2>1, <2>2 DEF Understood, Honoured
<1>7. QED
  BY <1>1, <1>2, <1>3, <1>4, <1>5, <1>6 DEF Next

\* The index follows the characters of every line, past the largest index and
\* up to where it comes around.
LEMMA ReadingStep == TypeOK /\ Reading /\ [Next]_vars => Reading'
<1> SUFFICES ASSUME TypeOK, Reading, [Next]_vars  PROVE Reading'
  OBVIOUS
<1> USE ConstantFacts
<1>1. CASE UNCHANGED vars \/ Tick
  BY <1>1 DEF vars, lineVars, Tick, Reading, Characters
<1>2. CASE WindowResets \/ Reboot \/ SendPage \/ ClientLeaves
  BY <1>2 DEF WindowResets, Reboot, SendPage, ClientLeaves, ClientDone, Reading
<1>3. CASE AcceptClient
  BY <1>3, Accepted DEF Reading, Characters, IndexAfter
<1>4. CASE ReadChar
  <2>1. /\ Characters = read /\ Characters' = read + 1 /\ read \in Nat
        /\ index' = NextIndex(index) /\ at = "inner"
    BY <1>4 DEF ReadChar, Characters, TypeOK
  <2>2. read + 1 <= 2 * IndexMax + 1 => index = IndexAfter(read)
    BY <2>1 DEF Reading
  <2>3. read + 1 <= 2 * IndexMax + 1 => index' = IndexAfter(read + 1)
    BY <2>1, <2>2 DEF NextIndex, IndexAfter
  <2>4. QED
    BY <2>1, <2>3 DEF Reading
<1>5. CASE ReadReturn
  BY <1>5 DEF ReadReturn, Reading, Characters, TypeOK
<1>6. CASE ReadNewline
  <2>1. len' \in Nat /\ read' = 0 /\ index' = 0
    BY <1>6, LengthFacts DEF ReadNewline, LineStart
  <2>2. QED
    BY <2>1 DEF Reading, Characters, IndexAfter
<1>7. QED
  BY <1>1, <1>2, <1>3, <1>4, <1>5, <1>6 DEF Next

-----------------------------------------------------------------------------
\* Types and ranges, for lines of any length: the index keeps its range
\* although it wraps.
THEOREM ApTypeCorrect == Spec => []TypeOK
BY InitAp, TypeStep, PTL DEF Spec

\* In every reachable state of gwAPModeConfig(), a request is understood once
\* its text is complete, and the index is where the bytes have brought it.
THEOREM ApInvariance == Spec => [](TypeOK /\ Understood /\ Reading)
<1>1. TypeOK /\ Understood /\ Reading /\ [Next]_vars => (TypeOK /\ Understood /\ Reading)'
  BY TypeStep, UnderstoodStep, ReadingStep
<1>2. QED
  BY <1>1, InitAp, PTL DEF Spec

\* The page that ends a visit is sent when the request was honoured, exactly
\* once, by every client that wrote nothing outside of the buffer.
THEOREM RequestHonouredHolds == Spec => RequestHonoured
<1>1. TypeOK /\ Understood /\ Reading /\ [Next]_vars => [SendPage /\ ~stray => Honoured]_vars
  BY ConstantFacts DEF TypeOK, Understood, Counted, Characters, SendPage
<1>2. QED
  BY <1>1, ApInvariance, PTL DEF Spec, RequestHonoured

\* The characters of a line that are written outside of the buffer, as long as
\* the index has not come around, are those beyond the largest index: the first
\* of them is the one after IndexMax + 1 characters, for lines of any length.
THEOREM LeavesBeyondIndexHolds == Spec => LeavesBeyondIndex
<1>1. TypeOK /\ Understood /\ Reading /\ [Next]_vars =>
        [ReadChar /\ read <= 2 * IndexMax + 1 => (InBuffer(index) <=> read <= IndexMax)]_vars
  <2> SUFFICES ASSUME TypeOK, Reading, ReadChar, read <= 2 * IndexMax + 1
               PROVE  InBuffer(index) <=> read <= IndexMax
    OBVIOUS
  <2>1. index = IndexAfter(read) /\ read \in Nat
    BY DEF ReadChar, Reading, Characters, TypeOK
  <2>2. QED
    BY <2>1, ConstantFacts DEF IndexAfter, InBuffer
<1>2. QED
  BY <1>1, ApInvariance, PTL DEF Spec, LeavesBeyondIndex

\* The form is taken whenever its line fits: the length of the request line is
\* all that stands between the code and what its page promises.
THEOREM FormTakenHolds ==
    ASSUME RequestLinesFit
    PROVE  Spec => FormTaken
<1>1. TypeOK /\ Understood /\ Reading /\ [Next]_vars =>
        [SendPage /\ request = "form" => resetflag # 0]_vars
  BY ConstantFacts DEF TypeOK, Understood, Counted, Characters, SendPage, Honoured
<1>2. QED
  BY <1>1, ApInvariance, PTL DEF Spec, FormTaken

\* A form is lost when its request line is longer than the index can count by
\* two characters or more: the text never ends in the version, and the page
\* that asks for a form is sent again.  With FormTakenHolds this says of every
\* length but one what becomes of a form.
THEOREM LongFormIgnored ==
    ASSUME \A n \in RequestLengths["form"] : n > IndexMax + 2
    PROVE  Spec => [](at = "inner" /\ request = "form" => resetflag = 0)
<1> DEFINE Stuck ==
        /\ held <= IndexMax + 1
        /\ at = "inner" =>
             /\ line = "request" => len \in RequestLengths[request]
             /\ request = "form" => resetflag = 0
<1> USE ConstantFacts
<1>1. Init => Stuck
  BY DEF Init
<1>2. TypeOK /\ Stuck /\ [Next]_vars => Stuck'
  <2> SUFFICES ASSUME TypeOK, Stuck, [Next]_vars  PROVE Stuck'
    OBVIOUS
  <2>1. CASE UNCHANGED vars \/ WindowResets \/ Reboot \/ SendPage \/ ClientLeaves \/ Tick
    BY <2>1 DEF vars, lineVars, WindowResets, Reboot, SendPage, ClientLeaves, ClientDone, Tick
  <2>2. CASE AcceptClient
    BY <2>2, Accepted
  <2>3. CASE ReadChar \/ ReadReturn
    <3>1. held' <= IndexMax + 1 /\ held' \in Nat
      BY <2>3 DEF ReadChar, ReadReturn, TypeOK
    <3>2. UNCHANGED <<at, request, line, len>> /\ at = "inner" /\ len \in Nat
      BY <2>3 DEF ReadChar, ReadReturn, TypeOK
    <3>3. CASE line = "request" /\ request = "form"
      <4>1. len > IndexMax + 2
        BY <3>2, <3>3
      <4>2. ~(held' = len - 1)
        BY <3>1, <3>2, <4>1
      <4>3. resetflag' = resetflag
        BY <2>3, <4>2 DEF ReadChar, ReadReturn, Look, EndsRequest
      <4>4. QED  BY <3>1, <3>2, <4>3
    <3>4. CASE ~(line = "request" /\ request = "form")
      <4>1. request = "form" => resetflag' = resetflag
        BY <2>3, <3>4 DEF ReadChar, ReadReturn, Look
      <4>2. QED  BY <3>1, <3>2, <4>1
    <3>5. QED  BY <3>3, <3>4
  <2>4. CASE ReadNewline
    BY <2>4 DEF ReadNewline
  <2>5. QED
    BY <2>1, <2>2, <2>3, <2>4 DEF Next
<1>3. Spec => []TypeOK
  BY ApTypeCorrect
<1>4. QED
  BY <1>1, <1>2, <1>3, PTL DEF Spec
=============================================================================
