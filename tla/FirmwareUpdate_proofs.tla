----------------------- MODULE FirmwareUpdate_proofs -----------------------
(***************************************************************************)
(* Proofs about FirmwareUpdate, for responses of any lengths: what stands  *)
(* in the file is the body of the response, complete if nothing failed,    *)
(* and no more progress is reported than was made.                         *)
(***************************************************************************)
EXTENDS FirmwareUpdate, TLAPS

States == {"eIdle", "eRequestSent", "eReadingStatusCode", "eStatusCodeRead",
           "eReadingContentLength", "eSkipToEndOfHeader", "eLineStartingCRFound",
           "eReadingBody"}

-----------------------------------------------------------------------------
(* Types. *)

\* The symbol that comes next is one.
LEMMA SymbolType ==
    ASSUME TypeOK, Arrives
    PROVE  /\ Symbol \in Symbols /\ pos + 1 \in 1..Len(resp)
           /\ Symbol.v \in Nat
<1>1. resp \in Seq(Symbols)
  BY ResponsesAssumption DEF TypeOK
<1>2. pos + 1 \in 1..Len(resp)
  BY <1>1 DEF TypeOK, Arrives
<1>3. Symbol \in Symbols
  BY <1>1, <1>2 DEF Symbol
<1>4. \A s \in Symbols : s.v \in Nat
  BY DEF Symbols, Digits
<1> QED  BY <1>2, <1>3, <1>4

\* A file that is open is not the old image, and no file is open after a reset.
FileInv == (fileOpen = TRUE => image \in Seq(Nat)) /\ (pc = "boot" => fileOpen = FALSE)

\* The types by what the actions leave alone together.
StreamTypes ==
    resp \in Responses /\ pos \in 0..Len(resp) /\ closed \in BOOLEAN /\ quiet \in 0..Patience
HttpTypes ==
    /\ iState \in States
    /\ iStatusCode \in Nat /\ iContentLength \in Nat /\ prefixRead \in {"start", "inside"}
ProgressTypes == bodyLen \in Int /\ onepart \in Nat /\ reported \in {-1, 0, 25, 50, 75, 100}
FileTypes ==
    /\ image = Old \/ image \in Seq(Nat)
    /\ fileOpen \in BOOLEAN /\ trouble \in BOOLEAN
    /\ fileOpen = TRUE => image \in Seq(Nat)
PcTypes ==
    /\ pc \in {"idle", "delete", "create", "get", "status", "headers", "body", "finish", "boot"}
    /\ pc = "boot" => fileOpen = FALSE

LEMMA TypesByPart ==
    /\ TypeOK /\ FileInv <=> StreamTypes /\ HttpTypes /\ ProgressTypes /\ FileTypes /\ PcTypes
    /\ (TypeOK /\ FileInv <=> StreamTypes /\ HttpTypes /\ ProgressTypes /\ FileTypes /\ PcTypes)'
  BY Zenon DEF TypeOK, FileInv, StreamTypes, HttpTypes, ProgressTypes, FileTypes, PcTypes, States

LEMMA TypesFramed ==
    /\ StreamTypes /\ UNCHANGED streamVars => StreamTypes'
    /\ HttpTypes /\ UNCHANGED httpVars => HttpTypes'
    /\ ProgressTypes /\ UNCHANGED progressVars => ProgressTypes'
    /\ FileTypes /\ UNCHANGED <<image, fileOpen, trouble>> => FileTypes'
  BY DEF StreamTypes, HttpTypes, ProgressTypes, FileTypes, streamVars, httpVars, progressVars

LEMMA InitTypes == Init => TypeOK /\ FileInv
<1> SUFFICES ASSUME Init PROVE TypeOK /\ FileInv
  OBVIOUS
<1>1. Len(resp) \in Nat
  BY ResponsesAssumption DEF Init
<1>2. pos \in 0..Len(resp) /\ quiet \in 0..Patience
  BY <1>1, PatienceAssumption DEF Init
<1>3. /\ iStatusCode \in Nat /\ iContentLength \in Nat /\ bodyLen \in Int /\ onepart \in Nat
      /\ reported \in {-1, 0, 25, 50, 75, 100}
  BY DEF Init
<1>4. FileInv
  BY Zenon DEF Init, FileInv
<1> QED  BY <1>2, <1>3, <1>4, Zenon DEF Init, TypeOK

\* What is reported is nothing new or one of the values.
LEMMA ReportTypes ==
    ASSUME NEW S, S \subseteq {0, 25, 50, 75, 100}, Report(S)
    PROVE  reported' = reported \/ reported' \in S
<1>1. CASE S # {} /\ reported' = MaxOf(S)
  <2>1. \E x \in S : \A y \in S : y <= x
    <3>1. PICK x \in S : TRUE
      BY <1>1
    <3>2. CASE 100 \in S
      BY <3>2
    <3>3. CASE 100 \notin S /\ 75 \in S
      BY <3>3
    <3>4. CASE 100 \notin S /\ 75 \notin S /\ 50 \in S
      BY <3>4
    <3>5. CASE 100 \notin S /\ 75 \notin S /\ 50 \notin S /\ 25 \in S
      BY <3>5
    <3>6. CASE 100 \notin S /\ 75 \notin S /\ 50 \notin S /\ 25 \notin S
      BY <3>1, <3>6
    <3> QED  BY <3>2, <3>3, <3>4, <3>5, <3>6
  <2> QED  BY <1>1, <2>1, Zenon DEF MaxOf
<1> QED  BY <1>1, Zenon DEF Report

\* A character of the status line leaves a number.
LEMMA StatusTypes ==
    ASSUME TypeOK, ReadStatus
    PROVE  TypeOK'
<1>1. /\ Symbol \in Symbols /\ pos + 1 \in 1..Len(resp)
      /\ Symbol.v \in Nat
  BY SymbolType DEF ReadStatus
<1>2. /\ pos' \in 0..Len(resp') /\ resp' \in Responses /\ quiet' \in 0..Patience
      /\ closed' \in BOOLEAN
  BY <1>1, PatienceAssumption DEF ReadStatus, ReadOn, TypeOK
<1>3. iStatusCode' \in Nat
  <2>1. Shift(iStatusCode, Symbol) \in Nat
    BY <1>1 DEF TypeOK, Shift
  <2> QED  BY <2>1 DEF ReadStatus, TypeOK
<1>5. iState' \in States
  <2>1. StatusState(Symbol) \in States
    BY Zenon DEF StatusState, States
  <2> QED  BY <2>1 DEF ReadStatus, TypeOK, States
<1>4. pc' \in {"idle", "status", "headers"} /\ trouble' \in BOOLEAN
  BY DEF ReadStatus, TypeOK, Return
<1> QED  BY <1>2, <1>3, <1>4, <1>5 DEF ReadStatus, TypeOK, progressVars, States

\* So does a character of the headers.
LEMMA HeaderTypes ==
    ASSUME TypeOK, ReadHeader
    PROVE  TypeOK'
<1>1. /\ Symbol \in Symbols /\ pos + 1 \in 1..Len(resp)
      /\ Symbol.v \in Nat
  BY SymbolType DEF ReadHeader
<1>2. /\ pos' \in 0..Len(resp') /\ resp' \in Responses /\ quiet' \in 0..Patience
      /\ closed' \in BOOLEAN
  BY <1>1, PatienceAssumption DEF ReadHeader, ReadOn, TypeOK
<1>3. iState' \in States /\ prefixRead' \in {"start", "inside"}
  BY DEF ReadHeader, TypeOK, HeaderState, LineStarts, HeaderPrefix, States
<1>4. iContentLength' \in Nat
  BY <1>1 DEF ReadHeader, TypeOK, HeaderLength, Shift
<1>5. bodyLen' \in Int /\ onepart' \in Nat
  BY <1>4 DEF ReadHeader, TypeOK, PartOf, progressVars
<1>6. reported' \in {-1, 0, 25, 50, 75, 100}
  <2>1. Report({0}) => reported' \in {reported, 0}
    BY ReportTypes
  <2> QED  BY <2>1 DEF ReadHeader, TypeOK, progressVars
<1>7. pc' \in {"headers", "body"}
  BY DEF ReadHeader
<1> QED  BY <1>2, <1>3, <1>4, <1>5, <1>6, <1>7 DEF ReadHeader, TypeOK, States

\* And a byte of the body, and what becomes of the file.
LEMMA BodyTypes ==
    ASSUME TypeOK, FileInv, ReadBody
    PROVE  TypeOK' /\ FileInv'
<1>1. /\ pos + 1 \in 1..Len(resp)
  BY SymbolType DEF ReadBody
<1>2. /\ pos' \in 0..Len(resp') /\ resp' \in Responses /\ quiet' \in 0..Patience
      /\ closed' \in BOOLEAN
  BY <1>1, PatienceAssumption DEF ReadBody, ReadOn, TypeOK
<1>3. reported' \in {-1, 0, 25, 50, 75, 100}
  <2>1. Progress(bodyLen') \subseteq {25, 50, 75}
    BY DEF Progress
  <2>2. reported' \in {reported, 25, 50, 75}
    BY <2>1, ReportTypes DEF ReadBody
  <2> QED  BY <2>2 DEF TypeOK
<1>4. FileTypes'
  <2>1. Append(image, pos + 1) \in Seq(Nat) \/ image = Old
    BY <1>1 DEF TypeOK
  <2>2. CASE fileOpen /\ image' = Append(image, pos + 1) /\ UNCHANGED <<fileOpen, trouble>>
    <3>1. image' \in Seq(Nat)
      BY <1>1, <2>2 DEF FileInv
    <3> QED  BY <2>2, <3>1, Zenon DEF ReadBody, TypeOK, FileTypes
  <2>3. CASE fileOpen' = FALSE /\ trouble' = TRUE /\ UNCHANGED image
    BY <2>3, Zenon DEF ReadBody, TypeOK, FileTypes
  <2> QED  BY <2>2, <2>3 DEF ReadBody
<1>5. bodyLen' \in Int
  BY DEF ReadBody, TypeOK
<1>6. pc' = "body"
  BY DEF ReadBody
<1>7. StreamTypes' /\ ProgressTypes' /\ HttpTypes'
  <2>1. StreamTypes'
    BY <1>2, Zenon DEF StreamTypes
  <2>2. ProgressTypes' /\ UNCHANGED httpVars
    BY <1>3, <1>5, Zenon DEF ReadBody, TypeOK, ProgressTypes
  <2> QED  BY <2>1, <2>2, TypesByPart, TypesFramed
<1> QED  BY <1>4, <1>6, <1>7, TypesByPart, Zenon DEF PcTypes

\* Every step keeps types and the file as it is.
LEMMA StepTypes ==
    ASSUME TypeOK, FileInv, [Next]_vars
    PROVE  TypeOK' /\ FileInv'
<1>0. StreamTypes /\ HttpTypes /\ ProgressTypes /\ FileTypes /\ PcTypes
  BY TypesByPart
<1> SUFFICES StreamTypes' /\ HttpTypes' /\ ProgressTypes' /\ FileTypes' /\ PcTypes'
  BY TypesByPart
<1>1. CASE OpenOld
  <2>1. FileTypes' /\ PcTypes' /\ UNCHANGED streamVars /\ UNCHANGED httpVars
    BY <1>0, <1>1, Zenon DEF OpenOld, Return, FileTypes, PcTypes, streamVars, httpVars
  <2>2. ProgressTypes'
    BY <1>0, <1>1 DEF OpenOld, ProgressTypes
  <2> QED  BY <1>0, <2>1, <2>2, TypesFramed
<1>2. CASE Delete \/ Create
  <2>1. <<>> \in Seq(Nat)
    OBVIOUS
  <2>2. FileTypes' /\ PcTypes' /\ UNCHANGED streamVars /\ UNCHANGED httpVars /\ UNCHANGED progressVars
    BY <1>0, <1>2, <2>1 DEF Delete, Create, Return, FileTypes, PcTypes, streamVars, httpVars,
                            progressVars
  <2> QED  BY <1>0, <2>2, TypesFramed
<1>3. CASE Get
  <2>1. Len(resp') \in Nat
    BY <1>3, ResponsesAssumption DEF Get
  <2>2. pos' \in 0..Len(resp') /\ quiet' \in 0..Patience
    BY <1>3, <2>1, PatienceAssumption DEF Get
  <2>4. StreamTypes'
    BY <1>3, <2>2, Zenon DEF Get, StreamTypes
  <2>5. HttpTypes'
    BY <1>3 DEF Get, HttpTypes, States
  <2>3. FileTypes' /\ PcTypes' /\ UNCHANGED progressVars
    BY <1>0, <1>3 DEF Get, Return, FileTypes, PcTypes
  <2> QED  BY <1>0, <2>3, <2>4, <2>5, TypesFramed
<1>4. CASE ReadStatus
  BY <1>0, <1>4, StatusTypes, TypesByPart DEF FileInv, ReadStatus, Return
<1>5. CASE StatusTimesOut
  <2>1. StreamTypes' /\ HttpTypes'
    BY <1>0, <1>5, PatienceAssumption DEF StatusTimesOut, StreamTypes, HttpTypes, States
  <2>2. FileTypes' /\ PcTypes' /\ UNCHANGED progressVars
    BY <1>0, <1>5 DEF StatusTimesOut, Return, FileTypes, PcTypes
  <2> QED  BY <1>0, <2>1, <2>2, TypesFramed
<1>6. CASE ReadHeader
  BY <1>0, <1>6, HeaderTypes, TypesByPart DEF FileInv, ReadHeader
<1>7. CASE HeadersTimeOut \/ BodyEnds
  <2>1. FileTypes' /\ PcTypes' /\ UNCHANGED streamVars /\ UNCHANGED httpVars /\ UNCHANGED progressVars
    BY <1>0, <1>7 DEF HeadersTimeOut, BodyEnds, FileTypes, PcTypes
  <2> QED  BY <1>0, <2>1, TypesFramed
<1>8. CASE ReadBody
  BY <1>8, BodyTypes, TypesByPart
<1>9. CASE Finish
  <2>1. reported' \in {reported, 100}
    BY <1>9, ReportTypes DEF Finish
  <2>2. ProgressTypes'
    BY <1>0, <1>9, <2>1 DEF Finish, ProgressTypes
  <2>3. FileTypes' /\ PcTypes' /\ UNCHANGED streamVars /\ UNCHANGED httpVars
    BY <1>0, <1>9, Zenon DEF Finish, FileTypes, PcTypes
  <2> QED  BY <1>0, <2>2, <2>3, TypesFramed
<1>10. CASE ServerCloses \/ Tick
  <2>1. StreamTypes'
    <3>1. quiet' \in 0..Patience /\ resp' = resp /\ pos' = pos
      BY <1>0, <1>10, PatienceAssumption DEF ServerCloses, Tick, TimedOut, StreamTypes
    <3>2. closed' \in BOOLEAN
      BY <1>0, <1>10, Zenon DEF ServerCloses, Tick, StreamTypes
    <3> QED  BY <1>0, <3>1, <3>2, Zenon DEF StreamTypes
  <2>2. FileTypes' /\ PcTypes' /\ UNCHANGED httpVars /\ UNCHANGED progressVars
    BY <1>0, <1>10 DEF ServerCloses, Tick, FileTypes, PcTypes
  <2> QED  BY <1>0, <2>1, <2>2, TypesFramed
<1>11. CASE PowerCut
  <2>1. image' = image \/ image' = <<>>
    BY <1>11 DEF PowerCut
  <2>4. <<>> \in Seq(Nat)
    OBVIOUS
  <2>2. image' = Old \/ image' \in Seq(Nat)
    BY <1>0, <2>1, <2>4, Zenon DEF FileTypes
  <2>3. FileTypes' /\ PcTypes' /\ UNCHANGED streamVars /\ UNCHANGED httpVars /\ UNCHANGED progressVars
    BY <1>11, <2>2, Zenon DEF PowerCut, FileTypes, PcTypes
  <2> QED  BY <1>0, <2>3, TypesFramed
<1>12. CASE Boot
  <2>1. FileTypes' /\ PcTypes' /\ UNCHANGED streamVars /\ UNCHANGED httpVars
    BY <1>0, <1>12, Zenon DEF Boot, FileTypes, PcTypes
  <2>2. ProgressTypes'
    BY <1>0, <1>12 DEF Boot, ProgressTypes
  <2> QED  BY <1>0, <2>1, <2>2, TypesFramed
<1>13. CASE UNCHANGED vars
  BY <1>0, <1>13, TypesFramed DEF PcTypes, vars
<1> QED
  BY <1>1, <1>2, <1>3, <1>4, <1>5, <1>6, <1>7, <1>8, <1>9, <1>10, <1>11, <1>12, <1>13 DEF Next

\* Types and ranges hold in every reachable state.
THEOREM UpdateTypeCorrect == Spec => []TypeOK
<1>1. TypeOK /\ FileInv /\ [Next]_vars => (TypeOK /\ FileInv)'
  BY StepTypes
<1> QED  BY InitTypes, <1>1, PTL DEF Spec

-----------------------------------------------------------------------------
(* The file follows the parser. *)

\* No blank line among the first p symbols of the response.
NoHead(p) == \A i \in HeadEnds(resp) : p < i

\* The parser stands behind an end of line; behind one and a CR.
AfterLF == pos >= 1 /\ resp[pos].c = "LF"
AfterCR == pos >= 2 /\ resp[pos].c = "CR" /\ resp[pos - 1].c = "LF"

\* What the parser knows of the place it stands at.
Parsing ==
    /\ pc \in {"status", "headers"} => NoHead(pos)
    /\ pc = "status" => prefixRead = "start" /\ (AfterLF => iState = "eRequestSent") /\ ~AfterCR
    /\ pc = "headers" => /\ AfterLF <=> iState = "eStatusCodeRead" /\ prefixRead = "start"
                         /\ AfterCR <=> iState = "eLineStartingCRFound"
    /\ pc = "body" => HeadEnds(resp) # {} /\ HeadLength(resp) \in 0..pos

\* What is in the file.
Filing ==
    /\ pc \in {"get", "status", "headers"} => image = <<>> /\ fileOpen = TRUE
    /\ image # Old => \A i \in DOMAIN image : HeadEnds(resp) # {} /\ image[i] = HeadLength(resp) + i
    /\ pc = "body" => /\ image # Old
                      /\ fileOpen = TRUE => Len(image) = pos - HeadLength(resp)

\* What went wrong outside of the program was seen.
Seen ==
    /\ pc \in {"status", "headers", "body"} /\ ~trouble /\ (closed \/ TimedOut) => pos = Len(resp)
    /\ pc = "body" /\ ~trouble => fileOpen = TRUE

\* A quarter is measured by the length announced.
Quartered == pc = "body" => onepart = PartOf(iContentLength)

UpdateInv == Parsing /\ Filing /\ Seen /\ GoodUpdateComplete

\* No header begins with a CR: it would be taken for the blank line.
HeadersBegin ==
    \A r \in Responses, i \in Nat \ {0} :
        /\ i + 2 <= Len(r) /\ r[i].c = "LF" /\ r[i + 1].c = "CR"
        /\ \A j \in HeadEnds(r) : i + 1 < j
        => r[i + 2].c = "LF"

\* A blank line with none before ends the head.
LEMMA HeadLengthIs ==
    ASSUME NEW r \in Seq(Symbols), NEW n \in HeadEnds(r), \A i \in HeadEnds(r) : n - 1 < i
    PROVE  HeadLength(r) = n
<1>1. \A i \in HeadEnds(r) : i \in Nat
  BY DEF HeadEnds
<1>2. \A i \in HeadEnds(r) : n <= i
  BY <1>1
<1>3. \A m \in HeadEnds(r) : (\A j \in HeadEnds(r) : m <= j) => m = n
  BY <1>1, <1>2
<1> QED  BY <1>2, <1>3, Zenon DEF HeadLength

\* The next symbol, when it ends the head and when not.
LEMMA NextSymbol ==
    ASSUME TypeOK, Arrives, NoHead(pos)
    PROVE  /\ AfterCR /\ Symbol.c = "LF" => /\ HeadEnds(resp) # {} /\ HeadLength(resp) = pos + 1
           /\ ~(AfterCR /\ Symbol.c = "LF") => NoHead(pos + 1)
<1>1. resp \in Seq(Symbols) /\ pos \in Nat /\ pos + 1 \in DOMAIN resp
  BY SymbolType, ResponsesAssumption DEF TypeOK
<1>2. \A i \in HeadEnds(resp) : i \in Nat
  BY <1>1 DEF HeadEnds
<1>3. pos + 1 \in HeadEnds(resp) <=> AfterCR /\ Symbol.c = "LF"
  BY <1>1 DEF HeadEnds, IsBlankLine, AfterCR, Symbol
<1>4. CASE AfterCR /\ Symbol.c = "LF"
  BY <1>1, <1>2, <1>3, <1>4, HeadLengthIs DEF NoHead
<1>5. CASE ~(AfterCR /\ Symbol.c = "LF")
  BY <1>1, <1>2, <1>3, <1>5 DEF NoHead
<1> QED  BY <1>4, <1>5

\* Where the parser stands after a symbol.
LEMMA Moved ==
    ASSUME TypeOK, Arrives, ReadOn
    PROVE  /\ resp' = resp /\ pos' = pos + 1 /\ pos \in Nat
           /\ AfterLF' <=> Symbol.c = "LF"
           /\ AfterCR' <=> Symbol.c = "CR" /\ AfterLF
  BY SymbolType DEF ReadOn, AfterLF, AfterCR, Symbol, TypeOK

\* A character just read: nothing has timed out, and the connection stands.
LEMMA ReadSees ==
    ASSUME TypeOK, Arrives, ReadOn
    PROVE  ~closed' /\ ~TimedOut'
<1>1. closed' = closed /\ quiet' = 0
  BY DEF ReadOn
<1>2. ~closed /\ ~(0 >= Patience)
  BY PatienceAssumption DEF Arrives
<1> QED  BY <1>1, <1>2, Zenon DEF TimedOut

\* What readHeader() does to its state.
LEMMA HeaderStates ==
    ASSUME NEW sym
    PROVE  /\ iState = "eLineStartingCRFound" /\ sym.c = "LF" => HeaderState(sym) = "eReadingBody"
           /\ iState # "eLineStartingCRFound" /\ sym.c = "LF" =>
                 HeaderState(sym) = "eStatusCodeRead" /\ HeaderPrefix(sym) = "start"
           /\ iState # "eLineStartingCRFound" /\ sym.c # "LF" =>
                 /\ HeaderState(sym) = "eLineStartingCRFound" <=>
                       iState = "eStatusCodeRead" /\ sym.c = "CR" /\ prefixRead = "start"
                 /\ HeaderState(sym) = "eStatusCodeRead" => HeaderPrefix(sym) = "inside"
                 /\ HeaderState(sym) # "eReadingBody"
<1>1. CASE sym.c = "LF"
  BY <1>1 DEF HeaderState, HeaderPrefix
<1>2. CASE iState # "eLineStartingCRFound" /\ sym.c # "LF" /\ LineStarts
  BY <1>2 DEF HeaderState, HeaderPrefix, LineStarts
<1>3. CASE iState # "eLineStartingCRFound" /\ sym.c # "LF" /\ ~LineStarts
  BY <1>3 DEF HeaderState, HeaderPrefix, LineStarts
<1> QED  BY <1>1, <1>2, <1>3

\* A character of the status line: no blank line is passed, for each attempt
\* begins with a prefix.
LEMMA StatusParses ==
    ASSUME TypeOK, FileInv, UpdateInv, ReadStatus
    PROVE  UpdateInv'
<1>1. /\ resp' = resp /\ pos' = pos + 1 /\ pos \in Nat
      /\ AfterLF' <=> Symbol.c = "LF"
      /\ AfterCR' <=> Symbol.c = "CR" /\ AfterLF
  BY Moved DEF ReadStatus
<1>2. /\ NoHead(pos) /\ prefixRead = "start" /\ (AfterLF => iState = "eRequestSent") /\ ~AfterCR
      /\ image = <<>> /\ fileOpen = TRUE
  BY DEF UpdateInv, Parsing, Filing, ReadStatus
<1>3. NoHead(pos + 1)
  BY <1>2, NextSymbol DEF ReadStatus
<1>4. NoHead(pos)'
  BY <1>1, <1>3 DEF NoHead
<1>5. /\ pc' \in {"idle", "status", "headers"} /\ prefixRead' = "start"
      /\ image' = <<>> /\ fileOpen' = TRUE
  BY <1>2 DEF ReadStatus, Return
<1>6. pc' = "status" => (AfterLF' => iState' = "eRequestSent") /\ ~AfterCR'
  BY <1>1, <1>2 DEF ReadStatus, Return, AcceptsPrefix
<1>7. pc' = "headers" => Symbol.c = "LF" /\ iState' = "eStatusCodeRead"
  BY DEF ReadStatus, Return
<1>8. Parsing'
  BY <1>1, <1>4, <1>5, <1>6, <1>7 DEF Parsing
<1>9. Filing'
  BY <1>5 DEF Filing
<1>10. Seen' /\ GoodUpdateComplete'
  BY <1>5, ReadSees, Zenon DEF ReadStatus, Seen, GoodUpdateComplete
<1> QED  BY <1>8, <1>9, <1>10 DEF UpdateInv

\* A character of the headers: the first blank line ends them.
LEMMA HeaderParses ==
    ASSUME TypeOK, FileInv, UpdateInv, ReadHeader, HeadersBegin
    PROVE  UpdateInv'
<1>1. /\ resp' = resp /\ pos' = pos + 1 /\ pos \in Nat
      /\ AfterLF' <=> Symbol.c = "LF"
      /\ AfterCR' <=> Symbol.c = "CR" /\ AfterLF
  BY Moved DEF ReadHeader
<1>2. /\ NoHead(pos)
      /\ AfterLF <=> iState = "eStatusCodeRead" /\ prefixRead = "start"
      /\ AfterCR <=> iState = "eLineStartingCRFound"
      /\ image = <<>> /\ fileOpen = TRUE
  BY DEF UpdateInv, Parsing, Filing, ReadHeader
<1>3. image' = <<>> /\ fileOpen' = TRUE /\ image' # Old
  <2>1. <<>> \in Seq(Nat)
    OBVIOUS
  <2> QED  BY <1>2, <2>1, OldAssumption DEF ReadHeader
<1>4. /\ iState' = HeaderState(Symbol) /\ prefixRead' = HeaderPrefix(Symbol)
      /\ pc' = IF iState' = "eReadingBody" THEN "body" ELSE "headers"
  BY DEF ReadHeader
<1>5. Seen' /\ GoodUpdateComplete'
  BY <1>3, <1>4, ReadSees, Zenon DEF ReadHeader, Seen, GoodUpdateComplete
<1>6. CASE AfterCR
  <2>1. Symbol.c = "LF"
    <3>1. /\ resp \in Responses /\ pos - 1 \in Nat \ {0} /\ (pos - 1) + 2 <= Len(resp)
          /\ (pos - 1) + 1 = pos /\ (pos - 1) + 2 = pos + 1
      BY <1>1, <1>6, SymbolType DEF ReadHeader, AfterCR, TypeOK
    <3>2. \A j \in HeadEnds(resp) : (pos - 1) + 1 < j
      BY <1>2, <3>1 DEF NoHead
    <3> QED  BY <1>6, <3>1, <3>2 DEF HeadersBegin, AfterCR, Symbol
  <2>2. pc' = "body"
    BY <1>2, <1>4, <1>6, <2>1, HeaderStates
  <2>3. HeadEnds(resp') # {} /\ HeadLength(resp') = pos'
    BY <1>1, <1>2, <1>6, <2>1, NextSymbol DEF ReadHeader
  <2>4. Parsing'
    BY <1>1, <2>2, <2>3 DEF Parsing
  <2>5. Filing'
    BY <1>1, <1>3, <2>2, <2>3 DEF Filing
  <2> QED  BY <1>5, <2>4, <2>5 DEF UpdateInv
<1>7. CASE ~AfterCR
  <2>1. NoHead(pos)'
    BY <1>1, <1>2, <1>7, NextSymbol DEF ReadHeader, NoHead
  <2>2. iState # "eLineStartingCRFound"
    BY <1>2, <1>7
  <2>3. /\ pc' = "headers"
        /\ AfterLF' <=> iState' = "eStatusCodeRead" /\ prefixRead' = "start"
        /\ AfterCR' <=> iState' = "eLineStartingCRFound"
    BY <1>1, <1>2, <1>4, <2>2, HeaderStates
  <2>5. Parsing'
    BY <2>1, <2>3 DEF Parsing
  <2>6. Filing'
    BY <1>3, <2>3 DEF Filing
  <2> QED  BY <1>5, <2>5, <2>6 DEF UpdateInv
<1> QED  BY <1>6, <1>7

\* A byte of the body goes to the file, or the file is given up.
LEMMA BodyFiled ==
    ASSUME TypeOK, FileInv, UpdateInv, ReadBody
    PROVE  UpdateInv'
<1>1. /\ resp' = resp /\ pos' = pos + 1 /\ pos \in Nat /\ pc = "body" /\ pc' = "body"
  BY Moved DEF ReadBody
<1>2. /\ HeadEnds(resp) # {} /\ HeadLength(resp) \in 0..pos
      /\ image # Old /\ image \in Seq(Nat)
      /\ fileOpen = TRUE => Len(image) = pos - HeadLength(resp)
      /\ \A i \in DOMAIN image : image[i] = HeadLength(resp) + i
  BY <1>1 DEF UpdateInv, Parsing, Filing, TypeOK
<1>3. Parsing'
  BY <1>1, <1>2 DEF Parsing
<1>4. Filing'
  <2>1. CASE fileOpen /\ image' = Append(image, pos + 1) /\ UNCHANGED <<fileOpen, trouble>>
    <3>1. image' \in Seq(Nat) /\ Len(image') = Len(image) + 1
      BY <1>1, <1>2, <2>1
    <3>2. Len(image) = pos - HeadLength(resp)
      BY <1>2, <2>1 DEF TypeOK
    <3>3. \A i \in DOMAIN image' : image'[i] = HeadLength(resp) + i
      <4> SUFFICES ASSUME NEW i \in DOMAIN image' PROVE image'[i] = HeadLength(resp) + i
        OBVIOUS
      <4>1. i \in 1..(Len(image) + 1) /\ Len(image) \in Nat
        BY <1>2, <3>1
      <4>2. CASE i \in 1..Len(image)
        <5>1. image'[i] = image[i] /\ i \in DOMAIN image
          BY <1>1, <1>2, <2>1, <4>2
        <5> QED  BY <1>2, <5>1
      <4>3. CASE i = Len(image) + 1
        <5>1. image'[i] = pos + 1
          BY <1>1, <1>2, <2>1, <4>3
        <5> QED  BY <1>1, <1>2, <3>2, <4>3, <5>1
      <4> QED  BY <4>1, <4>2, <4>3
    <3> QED  BY <1>1, <1>2, <3>1, <3>2, <3>3, OldAssumption DEF Filing
  <2>2. CASE fileOpen' = FALSE /\ UNCHANGED image
    BY <1>1, <1>2, <2>2 DEF Filing
  <2> QED  BY <2>1, <2>2 DEF ReadBody
<1>5. pc = "body" /\ ~trouble => fileOpen = TRUE
  BY DEF UpdateInv, Seen
<1>6. Seen' /\ GoodUpdateComplete'
  BY <1>1, <1>5, ReadSees, Zenon DEF ReadBody, Seen, GoodUpdateComplete
<1> QED  BY <1>3, <1>4, <1>6 DEF UpdateInv

\* The steps that read nothing.
LEMMA OtherSteps ==
    ASSUME TypeOK, FileInv, UpdateInv, [Next]_vars,
           ~ReadStatus, ~ReadHeader, ~ReadBody
    PROVE  UpdateInv'
<1>1. CASE OpenOld \/ Delete \/ Create
  <2>1. pc' \in {"idle", "delete", "create", "get"} /\ UNCHANGED resp
    BY <1>1 DEF OpenOld, Delete, Create, Return, streamVars
  <2>2. Parsing' /\ Seen' /\ GoodUpdateComplete'
    BY <2>1 DEF Parsing, Seen, GoodUpdateComplete
  <2>3. image' = image \/ image' = <<>>
    BY <1>1 DEF OpenOld, Delete, Create
  <2>4. pc' = "get" => image' = <<>> /\ fileOpen' = TRUE
    BY <1>1 DEF OpenOld, Delete, Create, Return
  <2>5. Filing'
    BY <2>1, <2>3, <2>4 DEF UpdateInv, Filing
  <2> QED  BY <2>2, <2>5 DEF UpdateInv
<1>2. CASE Get
  <2>1. image' = <<>> /\ fileOpen' = TRUE /\ pc' \in {"idle", "status"}
    BY <1>2 DEF Get, UpdateInv, Filing, Return
  <2>2. resp' \in Seq(Symbols) /\ pos' = 0 /\ iState' = "eRequestSent" /\ prefixRead' = "start"
    BY <1>2, ResponsesAssumption DEF Get
  <2>3. NoHead(pos)' /\ ~AfterCR' /\ ~AfterLF'
    BY <2>2 DEF NoHead, HeadEnds, AfterCR, AfterLF
  <2>4. Parsing' /\ Filing'
    BY <2>1, <2>2, <2>3 DEF Parsing, Filing
  <2>5. ~closed' /\ ~TimedOut'
    BY <1>2, PatienceAssumption DEF Get, TimedOut
  <2>6. Seen' /\ GoodUpdateComplete'
    BY <2>1, <2>5 DEF Seen, GoodUpdateComplete
  <2> QED  BY <2>4, <2>6 DEF UpdateInv
<1>3. CASE StatusTimesOut
  <2>1. /\ UNCHANGED <<resp, pos, prefixRead, image, fileOpen>> /\ trouble' = TRUE
        /\ pc = "status" /\ pc' \in {"idle", "status"} /\ (pc' = "status" => iState' = "eRequestSent")
    BY <1>3 DEF StatusTimesOut, Return
  <2>2. Parsing'
    BY <2>1 DEF UpdateInv, Parsing, NoHead, AfterLF, AfterCR
  <2>3. Filing' /\ Seen' /\ GoodUpdateComplete'
    BY <2>1 DEF UpdateInv, Filing, Seen, GoodUpdateComplete
  <2> QED  BY <2>2, <2>3 DEF UpdateInv
<1>4. CASE HeadersTimeOut
  <2>1. /\ UNCHANGED <<resp, pos, image, fileOpen>> /\ pc = "headers" /\ pc' = "finish" /\ TimedOut
        /\ ~trouble' => ~trouble /\ HeadEnds(resp) # {}
    BY <1>4 DEF HeadersTimeOut, streamVars
  <2>2. trouble'
    <3>1. SUFFICES ASSUME ~trouble' PROVE FALSE
      OBVIOUS
    <3>2. pos = Len(resp) /\ NoHead(pos) /\ HeadEnds(resp) # {}
      BY <2>1, <3>1 DEF UpdateInv, Seen, Parsing
    <3>3. resp \in Seq(Symbols)
      BY ResponsesAssumption DEF TypeOK
    <3> QED  BY <3>2, <3>3 DEF NoHead, HeadEnds
  <2>3. Parsing' /\ Filing' /\ Seen' /\ GoodUpdateComplete'
    BY <2>1, <2>2 DEF UpdateInv, Parsing, Filing, Seen, GoodUpdateComplete
  <2> QED  BY <2>3 DEF UpdateInv
<1>5. CASE BodyEnds
  <2>1. /\ UNCHANGED <<resp, pos, image, fileOpen, trouble>> /\ pc = "body" /\ pc' = "finish"
        /\ closed \/ TimedOut
    BY <1>5 DEF BodyEnds, BodyOver, streamVars
  <2>2. Parsing' /\ Filing' /\ Seen'
    BY <2>1 DEF UpdateInv, Parsing, Filing, Seen
  <2>3. ~trouble => Whole /\ fileOpen = TRUE
    BY <2>1 DEF UpdateInv, Parsing, Filing, Seen, Whole
  <2>4. GoodUpdateComplete'
    BY <2>1, <2>3 DEF GoodUpdateComplete, Whole
  <2> QED  BY <2>2, <2>4 DEF UpdateInv
<1>6. CASE Finish \/ PowerCut \/ Boot
  <2>1. /\ UNCHANGED resp /\ pc' \in {"boot", "idle"}
        /\ image' \in {<<>>, image, Old}
    BY <1>6 DEF Finish, PowerCut, Boot, streamVars
  <2>2. Parsing' /\ Filing' /\ Seen' /\ GoodUpdateComplete'
    BY <2>1 DEF UpdateInv, Parsing, Filing, Seen, GoodUpdateComplete
  <2> QED  BY <2>2 DEF UpdateInv
<1>7. CASE ServerCloses \/ Tick
  <2>1. /\ UNCHANGED <<pc, resp, pos, iState, prefixRead, image, fileOpen>>
        /\ pc \in {"status", "headers", "body"}
        /\ ~trouble' => ~trouble
        /\ ~trouble' /\ (closed' \/ TimedOut') => pos = Len(resp)
    <3>1. resp \in Seq(Symbols) /\ pos \in 0..Len(resp)
      BY ResponsesAssumption DEF TypeOK
    <3>4. ~(pos < Len(resp)) => pos = Len(resp)
      BY <3>1
    <3>2. CASE ServerCloses
      BY <3>2, <3>4, Zenon DEF ServerCloses, httpVars
    <3>3. CASE Tick
      <4>1. ~TimedOut /\ UNCHANGED <<resp, pos, closed>> /\ quiet' = quiet + 1
            /\ trouble' = (trouble \/ (quiet' >= Patience /\ pos < Len(resp)))
        BY <3>3, Zenon DEF Tick
      <4>2. ~trouble' /\ closed' => pos = Len(resp)
        <5>1. Seen /\ pc \in {"status", "headers", "body"}
          BY <3>3, Zenon DEF UpdateInv, Tick
        <5>2. ~trouble /\ closed => pos = Len(resp)
          BY <5>1, Zenon DEF Seen
        <5>3. closed' = closed /\ (~trouble' => ~trouble)
          BY <4>1, Zenon
        <5> QED  BY <5>2, <5>3, Zenon
      <4>3. ~trouble' /\ TimedOut' => pos = Len(resp)
        BY <3>4, <4>1, Zenon DEF TimedOut
      <4> QED  BY <3>3, <4>1, <4>2, <4>3, Zenon DEF Tick, httpVars
    <3> QED  BY <1>7, <3>2, <3>3
  <2>2. Parsing' /\ Filing'
    BY <2>1 DEF UpdateInv, Parsing, Filing, NoHead, AfterLF, AfterCR
  <2>3. Seen' /\ GoodUpdateComplete'
    BY <2>1 DEF UpdateInv, Seen, GoodUpdateComplete
  <2> QED  BY <2>2, <2>3 DEF UpdateInv
<1>8. CASE UNCHANGED vars
  <2>1. UNCHANGED <<pc, resp, pos, closed, quiet, iState, prefixRead, image, fileOpen, trouble>>
    BY <1>8 DEF vars, streamVars, httpVars
  <2> QED
    BY <2>1 DEF UpdateInv, Parsing, Filing, Seen, GoodUpdateComplete, Whole, NoHead, AfterLF, AfterCR,
                TimedOut
<1> QED  BY <1>1, <1>2, <1>3, <1>4, <1>5, <1>6, <1>7, <1>8 DEF Next

-----------------------------------------------------------------------------
(* What holds of every run. *)

LEMMA InitUpdate == Init => UpdateInv
  BY DEF Init, UpdateInv, Parsing, Filing, Seen, GoodUpdateComplete

LEMMA UpdateStep ==
    HeadersBegin /\ TypeOK /\ FileInv /\ UpdateInv /\ [Next]_vars => UpdateInv'
  BY StatusParses, HeaderParses, BodyFiled, OtherSteps

\* The invariant of parser and file holds in every reachable state, if no
\* header begins with a CR.
THEOREM UpdateInvariance == HeadersBegin => (Spec => [](TypeOK /\ FileInv /\ UpdateInv))
<1> SUFFICES ASSUME HeadersBegin PROVE Spec => [](TypeOK /\ FileInv /\ UpdateInv)
  OBVIOUS
<1>1. Init => TypeOK /\ FileInv /\ UpdateInv
  BY InitTypes, InitUpdate
<1>2. TypeOK /\ FileInv /\ UpdateInv /\ [Next]_vars => (TypeOK /\ FileInv /\ UpdateInv)'
  BY StepTypes, UpdateStep
<1> QED  BY <1>1, <1>2, PTL DEF Spec

\* The file is a beginning of the body, wherever the response is cut or stalls
\* and whichever write fails, for responses of any lengths.
THEOREM ImageIsBodyHolds == HeadersBegin => (Spec => []ImageIsBody)
<1> SUFFICES ASSUME HeadersBegin PROVE Spec => []ImageIsBody
  OBVIOUS
<1>1. TypeOK /\ FileInv /\ UpdateInv => ImageIsBody
  BY DEF UpdateInv, Filing, ImageIsBody
<1> QED  BY <1>1, UpdateInvariance, PTL

\* A download carried to the end without a failure outside of the program has
\* the whole body in the file, for responses of any lengths.
THEOREM GoodUpdateCompleteHolds == HeadersBegin => (Spec => []GoodUpdateComplete)
<1> SUFFICES ASSUME HeadersBegin PROVE Spec => []GoodUpdateComplete
  OBVIOUS
<1>1. TypeOK /\ FileInv /\ UpdateInv => GoodUpdateComplete
  BY DEF UpdateInv
<1> QED  BY <1>1, UpdateInvariance, PTL

-----------------------------------------------------------------------------
(* Progress. *)

\* The quarter is computed where the body begins and stays.
LEMMA QuarterStep == TypeOK /\ Quartered /\ [Next]_vars => Quartered'
<1> SUFFICES ASSUME TypeOK, Quartered, [Next]_vars PROVE Quartered'
  OBVIOUS
<1>1. CASE OpenOld \/ Delete \/ Create \/ Get \/ ReadStatus \/ StatusTimesOut \/ HeadersTimeOut
  BY <1>1 DEF Quartered, OpenOld, Delete, Create, Get, ReadStatus, StatusTimesOut, HeadersTimeOut, Return
<1>2. CASE ReadHeader
  BY <1>2 DEF Quartered, ReadHeader
<1>3. CASE ReadBody \/ ServerCloses \/ Tick \/ UNCHANGED vars
  BY <1>3 DEF Quartered, ReadBody, ServerCloses, Tick, vars, httpVars, progressVars
<1>4. CASE BodyEnds \/ Finish \/ PowerCut \/ Boot
  BY <1>4 DEF Quartered, BodyEnds, Finish, PowerCut, Boot
<1> QED  BY <1>1, <1>2, <1>3, <1>4 DEF Next

\* Three quarters left, rounded down, are no more than three quarters.
LEMMA QuartersLeft ==
    ASSUME NEW n \in Nat, NEW left \in Int, NEW p \in {25, 50, 75},
           left = (4 - p \div 25) * PartOf(n)
    PROVE  100 * (n - left) >= p * n
<1>1. PartOf(n) \in Nat /\ 4 * PartOf(n) <= n
  BY DEF PartOf
<1>2. CASE p = 25
  BY <1>1, <1>2
<1>3. CASE p = 50
  BY <1>1, <1>3
<1>4. CASE p = 75
  BY <1>1, <1>4
<1> QED  BY <1>2, <1>3, <1>4

\* No more progress is published than was made, for any length announced.
THEOREM ProgressHonestHolds == Spec => ProgressHonest
<1>1. Init => Quartered
  BY DEF Init, Quartered
<1>2. TypeOK /\ Quartered /\ [Next]_vars =>
         [ReadBody /\ reported' # reported =>
            100 * (iContentLength - bodyLen') >= reported' * iContentLength]_vars
  <2> SUFFICES ASSUME TypeOK, Quartered, ReadBody, reported' # reported
               PROVE  100 * (iContentLength - bodyLen') >= reported' * iContentLength
    OBVIOUS
  <2>1. Progress(bodyLen') \subseteq {25, 50, 75}
    BY DEF Progress
  <2>2. reported' \in Progress(bodyLen')
    BY <2>1, ReportTypes DEF ReadBody
  <2>3. bodyLen' = (4 - reported' \div 25) * PartOf(iContentLength) /\ reported' \in {25, 50, 75}
    BY <2>2 DEF Progress, ReadBody, Quartered
  <2>4. iContentLength \in Nat /\ bodyLen' \in Int
    BY DEF TypeOK, ReadBody
  <2> QED  BY <2>3, <2>4, QuartersLeft
<1> QED  BY <1>1, <1>2, QuarterStep, UpdateTypeCorrect, PTL DEF Spec, ProgressHonest
-----------------------------------------------------------------------------
(* The end of an update. *)

\* A device that cannot come up with what the update left in the file had
\* something outside of the program fail: a connection cut, a stall, a file
\* system that refused, the power.
CleanBoot == pc = "boot" /\ ~trouble => Whole

\* An update in which nothing failed leaves a device that boots, whatever the
\* response looks like (gwUpdateFirmware()).
THEOREM CleanBootHolds == HeadersBegin => (Spec => []CleanBoot)
<1> SUFFICES ASSUME HeadersBegin PROVE Spec => []CleanBoot
  OBVIOUS
<1>1. Init => CleanBoot
  BY DEF Init, CleanBoot
<1>2. UpdateInv /\ CleanBoot /\ [Next]_vars => CleanBoot'
  <2> SUFFICES ASSUME GoodUpdateComplete, CleanBoot, [Next]_vars, pc' = "boot", ~trouble'
               PROVE  Whole'
    BY DEF UpdateInv, CleanBoot
  <2>1. Finish \/ UNCHANGED vars
    BY DEF Next, OpenOld, Delete, Create, Get, ReadStatus, StatusTimesOut, ReadHeader, HeadersTimeOut,
           ReadBody, BodyEnds, ServerCloses, Tick, PowerCut, Boot, Return
  <2>2. UNCHANGED <<resp, image, trouble>> /\ (pc = "finish" \/ pc = "boot")
    BY <2>1 DEF Finish, vars, streamVars
  <2> QED  BY <2>2 DEF GoodUpdateComplete, CleanBoot, Whole
<1> QED  BY <1>1, <1>2, UpdateInvariance, PTL DEF Spec

Working == pc \notin {"idle", "boot"}

\* What is left of an update, the first that counts most: stages, symbols of
\* the response, an informational line to be read once more, and the wait.
StagesLeft ==
    CASE pc = "delete" -> 6 [] pc = "create" -> 5 [] pc = "get" -> 4 [] pc = "status" -> 3
      [] pc = "headers" -> 2 [] pc = "body" -> 1 [] OTHER -> 0

SymbolsLeft == Len(resp) - pos

RetryLeft == IF iState = "eStatusCodeRead" THEN 1 ELSE 0

WaitLeft == (IF closed THEN 0 ELSE 1) + (Patience - quiet)

\* The four are compared one after the other.
Nearer ==
    \/ StagesLeft' < StagesLeft
    \/ StagesLeft' = StagesLeft /\ SymbolsLeft' < SymbolsLeft
    \/ /\ StagesLeft' = StagesLeft /\ SymbolsLeft' = SymbolsLeft
       /\ RetryLeft' < RetryLeft
    \/ /\ StagesLeft' = StagesLeft /\ SymbolsLeft' = SymbolsLeft /\ RetryLeft' = RetryLeft
       /\ WaitLeft' < WaitLeft

\* Every step of an update, those of server, clock and power among them, ends
\* it or brings it nearer to its end: no response makes gwUpdateFirmware() and
\* HttpClient go in a circle, also not the informational line of which
\* responseStatusCode() makes another attempt when its time is out.
UpdateAdvances == [][Working => ~Working' \/ Nearer]_vars

\* The four are numbers, so that nothing can come nearer for ever.
LEMMA LeftNumbers ==
    ASSUME TypeOK
    PROVE  SymbolsLeft \in Nat /\ WaitLeft \in Nat /\ StagesLeft \in Nat /\ RetryLeft \in Nat
<1>1. Len(resp) \in Nat /\ pos \in 0..Len(resp)
  BY ResponsesAssumption DEF TypeOK
<1> QED
  BY <1>1, PatienceAssumption DEF TypeOK, SymbolsLeft, WaitLeft, StagesLeft, RetryLeft

LEMMA NearerStep ==
    ASSUME TypeOK, TypeOK', Next, Working, Working'
    PROVE  Nearer
<1>1. Len(resp) \in Nat /\ pos \in Nat /\ Patience \in Nat /\ quiet \in Nat /\ quiet <= Patience
  BY ResponsesAssumption, PatienceAssumption DEF TypeOK
<1>2. CASE Delete \/ Create \/ Get \/ HeadersTimeOut \/ BodyEnds
  BY <1>2 DEF Delete, Create, Get, HeadersTimeOut, BodyEnds, Return, Working, StagesLeft, Nearer
<1>3. CASE ReadStatus
  <2>1. pos' = pos + 1 /\ resp' = resp /\ pc = "status" /\ pc' \in {"status", "headers"}
    BY <1>3 DEF ReadStatus, ReadOn, Return, Working
  <2> QED  BY <1>1, <2>1 DEF StagesLeft, SymbolsLeft, Nearer
<1>4. CASE ReadHeader
  <2>1. pos' = pos + 1 /\ resp' = resp /\ pc = "headers" /\ pc' \in {"headers", "body"}
    BY <1>4 DEF ReadHeader, ReadOn
  <2> QED  BY <1>1, <2>1 DEF StagesLeft, SymbolsLeft, Nearer
<1>5. CASE ReadBody
  <2>1. pos' = pos + 1 /\ resp' = resp /\ pc = "body" /\ pc' = "body"
    BY <1>5 DEF ReadBody, ReadOn
  <2> QED  BY <1>1, <2>1 DEF StagesLeft, SymbolsLeft, Nearer
<1>6. CASE StatusTimesOut
  <2>1. /\ pos' = pos /\ resp' = resp /\ pc = "status" /\ pc' = "status"
        /\ iState = "eStatusCodeRead" /\ iState' = "eRequestSent"
    BY <1>6 DEF StatusTimesOut, Return, Working
  <2> QED  BY <1>1, <2>1 DEF StagesLeft, SymbolsLeft, RetryLeft, Nearer
<1>7. CASE ServerCloses
  <2>1. UNCHANGED <<pos, resp, pc, iState, quiet>> /\ closed = FALSE /\ closed' = TRUE
    BY <1>7 DEF ServerCloses, TypeOK, httpVars
  <2> QED  BY <1>1, <2>1 DEF StagesLeft, SymbolsLeft, RetryLeft, WaitLeft, Nearer
<1>8. CASE Tick
  <2>1. UNCHANGED <<pos, resp, pc, iState, closed>> /\ quiet' = quiet + 1
    BY <1>8 DEF Tick, httpVars
  <2> QED  BY <1>1, <2>1 DEF StagesLeft, SymbolsLeft, RetryLeft, WaitLeft, Nearer
<1> QED
  BY <1>2, <1>3, <1>4, <1>5, <1>6, <1>7, <1>8 DEF Next, OpenOld, Finish, PowerCut, Boot, Working

\* An update ends or comes nearer to its end with every step, for responses of
\* any lengths and any patience: the half of UpdateEnds that is safety.
THEOREM UpdateAdvancesHolds ==
    Spec => /\ UpdateAdvances
            /\ [](/\ StagesLeft \in Nat /\ SymbolsLeft \in Nat
                  /\ RetryLeft \in Nat /\ WaitLeft \in Nat)
<1>1. TypeOK /\ TypeOK' /\ [Next]_vars => [Working => ~Working' \/ Nearer]_vars
  BY NearerStep
<1>2. TypeOK => /\ StagesLeft \in Nat /\ SymbolsLeft \in Nat
                /\ RetryLeft \in Nat /\ WaitLeft \in Nat
  BY LeftNumbers
<1> QED  BY <1>1, <1>2, UpdateTypeCorrect, PTL DEF Spec, UpdateAdvances
=============================================================================
