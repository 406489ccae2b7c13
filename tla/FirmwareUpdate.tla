--------------------------- MODULE FirmwareUpdate ---------------------------
(***************************************************************************)
(* The firmware update of the gateway (gatewayLib/QiaqiaMqttGateway.cpp,   *)
(* gwUpdateFirmware()) over the HTTP client (gatewayLib/HttpClient.cpp):   *)
(* the image in flash is deleted, created and written byte by byte while   *)
(* the response is parsed, and the progress is published.  The response    *)
(* comes from outside: any of Responses, cut off or stalled at any symbol. *)
(*                                                                         *)
(* A symbol is a character, but for the two texts the parser looks for:    *)
(* "prefix" is HTTP/x.y and a blank, "name" is Content-Length, a colon and *)
(* a blank, "part" a proper beginning of it.                               *)
(***************************************************************************)
EXTENDS Integers, Sequences

CONSTANTS
    Responses,   \* what servers may answer: sequences of Symbols
    Patience,    \* ticks without a symbol until a read is given up (30 s)
    Old          \* the image the device runs

VARIABLES
    pc,          \* where gwUpdateFirmware() is, idle outside of it
    resp,        \* the response to this request
    pos,         \* symbols of it read
    closed,      \* neither http.connected() nor http.available(): the server has
                 \*   closed, and what had come by then is read
    quiet,       \* ticks since a symbol was read
    iState,      \* HttpClient::iState, of a response
    iStatusCode,
    iContentLength,
    prefixRead,  \* iContentLengthPtr: start, inside
    bodyLen,     \* what is left of the announced length
    onepart,     \* body_onepart
    image,       \* \sys\mcuimg.bin: Old, or the positions in resp of its bytes
    fileOpen,    \* SerFlash has the image open for writing
    reported,    \* the last progress published in this update, -1 before
    trouble      \* something outside of the program failed in this update

httpVars == <<iState, iStatusCode, iContentLength, prefixRead>>
streamVars == <<resp, pos, closed, quiet>>
progressVars == <<bodyLen, onepart, reported>>
vars == <<pc, streamVars, httpVars, progressVars, image, fileOpen, trouble>>

Digits == [c : {"digit"}, v : 0..9]
Symbols == [c : {"prefix", "name", "part", "char", "CR", "LF", "byte"}, v : {0}] \cup Digits

ASSUME ResponsesAssumption == Responses # {} /\ Responses \subseteq Seq(Symbols)
ASSUME PatienceAssumption == Patience \in Nat \ {0}
ASSUME OldAssumption == Old \notin Seq(Nat)

-----------------------------------------------------------------------------
(* What a response means, whoever parses it. *)

\* The symbols in front of the body: the lines up to the first blank one.
IsBlankLine(r, i) == i >= 3 /\ r[i].c = "LF" /\ r[i - 1].c = "CR" /\ r[i - 2].c = "LF"

HeadEnds(r) == {i \in DOMAIN r : IsBlankLine(r, i)}

HeadLength(r) == CHOOSE i \in HeadEnds(r) : \A j \in HeadEnds(r) : i <= j

BodyPositions(r) == IF HeadEnds(r) = {} THEN {} ELSE (HeadLength(r) + 1)..Len(r)

-----------------------------------------------------------------------------
(* HttpClient *)

AcceptsPrefix(sym) == sym.c = "prefix"

\* A digit of the status code or of the length.
Shift(n, sym) == n * 10 + sym.v

\* responseStatusCode(), one character: the state it leaves.
StatusState(sym) ==
    CASE iState = "eRequestSent" -> "eReadingStatusCode"
      [] iState = "eReadingStatusCode" /\ sym.c = "digit" -> "eReadingStatusCode"
      [] OTHER -> "eStatusCodeRead"

\* 1xx: the response proper is still to come.
Informational(code) == code < 200

HeaderState_CrEndsHeaders(sym) ==
    CASE sym.c = "CR" /\ iState = "eStatusCodeRead" /\ prefixRead = "start" -> "eReadingBody"
      [] sym.c = "LF" -> "eStatusCodeRead"
      [] sym.c = "name" /\ iState = "eStatusCodeRead" -> "eReadingContentLength"
      [] sym.c = "digit" /\ iState = "eReadingContentLength" -> "eReadingContentLength"
      [] OTHER -> "eSkipToEndOfHeader"

\* Nothing of the line has been read.
LineStarts == iState = "eStatusCodeRead" /\ prefixRead = "start"

\* readHeader(), one character: the state it leaves.  An end of line begins a
\* new header, unless it ends a blank line.
HeaderState(sym) ==
    IF sym.c = "LF"
    THEN IF iState = "eLineStartingCRFound" THEN "eReadingBody" ELSE "eStatusCodeRead"
    ELSE CASE iState = "eLineStartingCRFound" -> "eLineStartingCRFound"
           [] LineStarts /\ sym.c = "name" -> "eReadingContentLength"
           [] LineStarts /\ sym.c = "part" -> "eStatusCodeRead"
           [] LineStarts /\ sym.c = "CR" -> "eLineStartingCRFound"
           [] iState = "eReadingContentLength" /\ sym.c = "digit" -> "eReadingContentLength"
           [] OTHER -> "eSkipToEndOfHeader"

\* iContentLength and iContentLengthPtr after it.
HeaderLength(sym) ==
    CASE HeaderState(sym) = "eReadingContentLength" /\ sym.c = "name" -> 0
      [] HeaderState(sym) = "eReadingContentLength" /\ sym.c = "digit" -> Shift(iContentLength, sym)
      [] OTHER -> iContentLength

HeaderPrefix(sym) ==
    CASE sym.c = "LF" -> "start"
      [] iState = "eStatusCodeRead" /\ sym.c \in {"name", "part"} -> "inside"
      [] OTHER -> prefixRead

TimedOut_Never == FALSE

\* The loops over the status line, the headers and the body give up.
TimedOut == quiet >= Patience

-----------------------------------------------------------------------------
(* Pieces of gwUpdateFirmware() *)

\* available(): the next symbol has come.  None comes once closed is set: what
\* came before the server's close is read before it is set.
Arrives == pos < Len(resp) /\ ~closed /\ ~TimedOut

Symbol == resp[pos + 1]

ReadOn == pos' = pos + 1 /\ quiet' = 0 /\ UNCHANGED <<resp, closed>>

PartOf_RoundedUp(n) == (n + 3) \div 4

\* body_onepart
PartOf(n) == n \div 4

\* What is published once so much is left, in this order.
Progress(left) == {p \in {25, 50, 75} : left = (4 - p \div 25) * onepart}

BodyOver_Closed == closed

\* The loop over the body ends: the connection is closed and everything that
\* came is read, or nothing came for long.
BodyOver == closed \/ TimedOut

MaxOf(S) == CHOOSE x \in S : \A y \in S : y <= x

\* gwUpdateStatus(): the publish may fail, and nobody looks.
Report(values) ==
    \/ values # {} /\ reported' = MaxOf(values)
    \/ UNCHANGED reported

Return == pc' = "idle"

Init ==
    /\ pc = "idle"
    /\ resp \in Responses /\ pos = 0 /\ closed = FALSE /\ quiet = 0
    /\ iState = "eIdle" /\ iStatusCode = 0 /\ iContentLength = 0 /\ prefixRead = "start"
    /\ bodyLen = 0 /\ onepart = 0
    /\ image = Old /\ fileOpen = FALSE /\ reported = -1 /\ trouble = FALSE

-----------------------------------------------------------------------------
(* The image is given up. *)

\* The image is opened to see whether it is there, and closed.
OpenOld ==
    /\ pc = "idle"
    /\ fileOpen' = FALSE /\ reported' = -1 /\ trouble' \in {trouble, TRUE}
    /\ \/ pc' = "delete" /\ trouble' = FALSE
       \/ Return /\ trouble' = TRUE
    /\ UNCHANGED <<streamVars, httpVars, bodyLen, onepart, image>>

\* del(); its result is not looked at.
Delete ==
    /\ pc = "delete"
    /\ pc' = "create"
    /\ image' \in {<<>>, image} /\ trouble' = (image' # <<>>)
    /\ UNCHANGED <<streamVars, httpVars, progressVars, fileOpen>>

\* The file is created and closed, then opened again to be written.
Create ==
    /\ pc = "create"
    /\ \/ pc' = "get" /\ image' = <<>> /\ fileOpen' = TRUE /\ UNCHANGED trouble
       \/ Return /\ image' \in {<<>>, image} /\ trouble' = TRUE /\ UNCHANGED fileOpen
    /\ UNCHANGED <<streamVars, httpVars, progressVars>>

-----------------------------------------------------------------------------
(* The response. *)

\* get() of a new HttpClient; without a connection gwUpdateFirmware() returns
\* and leaves the file open.
Get ==
    /\ pc = "get"
    /\ resp' \in Responses /\ pos' = 0 /\ closed' = FALSE /\ quiet' = 0
    /\ iState' = "eRequestSent" /\ iStatusCode' = 0 /\ iContentLength' = 0 /\ prefixRead' = "start"
    /\ \/ pc' = "status" /\ UNCHANGED trouble
       \/ Return /\ trouble' = TRUE
    /\ UNCHANGED <<progressVars, image, fileOpen>>

\* One character of the status line.
ReadStatus ==
    /\ pc = "status" /\ Arrives
    /\ ReadOn
    /\ IF iState = "eRequestSent" /\ ~AcceptsPrefix(Symbol)
       THEN Return /\ trouble' = TRUE /\ UNCHANGED <<iState, iStatusCode>>
       ELSE /\ UNCHANGED trouble
            /\ LET code == IF StatusState(Symbol) = "eReadingStatusCode" /\ Symbol.c = "digit"
                           THEN Shift(iStatusCode, Symbol) ELSE iStatusCode
               IN  IF Symbol.c = "LF"
                   THEN IF Informational(code)
                        THEN iState' = "eRequestSent" /\ iStatusCode' = 0 /\ UNCHANGED pc
                        ELSE iState' = "eStatusCodeRead" /\ iStatusCode' = code /\ pc' = "headers"
                   ELSE iState' = StatusState(Symbol) /\ iStatusCode' = code /\ UNCHANGED pc
    /\ UNCHANGED <<iContentLength, prefixRead, progressVars, image, fileOpen>>

\* Nothing came: in the line of an informational response another attempt is
\* made, otherwise gwUpdateFirmware() returns.
StatusTimesOut ==
    /\ pc = "status" /\ TimedOut
    /\ quiet' = 0 /\ trouble' = TRUE
    /\ IF iState = "eStatusCodeRead" /\ Informational(iStatusCode)
       THEN iState' = "eRequestSent" /\ iStatusCode' = 0 /\ UNCHANGED pc
       ELSE Return /\ UNCHANGED <<iState, iStatusCode>>
    /\ UNCHANGED <<resp, pos, closed, iContentLength, prefixRead, progressVars, image, fileOpen>>

\* One character of the headers.  Behind them the body is measured.
ReadHeader ==
    /\ pc = "headers" /\ Arrives
    /\ ReadOn
    /\ iState' = HeaderState(Symbol)
    /\ iContentLength' = HeaderLength(Symbol) /\ prefixRead' = HeaderPrefix(Symbol)
    /\ IF iState' = "eReadingBody"
       THEN /\ pc' = "body"
            /\ bodyLen' = iContentLength' /\ onepart' = PartOf(iContentLength')
            /\ Report({0})
       ELSE UNCHANGED <<pc, progressVars>>
    /\ UNCHANGED <<iStatusCode, image, fileOpen, trouble>>

\* The headers do not end: the update is over, like after a body.
HeadersTimeOut ==
    /\ pc = "headers" /\ TimedOut
    /\ pc' = "finish" /\ trouble' = (trouble \/ HeadEnds(resp) = {})
    /\ UNCHANGED <<streamVars, httpVars, progressVars, image, fileOpen>>

-----------------------------------------------------------------------------
(* The body. *)

\* A byte is read and written, and progress published.  A write that fails
\* closes the file, and the loop goes on without one.
ReadBody ==
    /\ pc = "body" /\ Arrives
    /\ ReadOn
    /\ \/ fileOpen /\ image' = Append(image, pos + 1) /\ UNCHANGED <<fileOpen, trouble>>
       \/ fileOpen' = FALSE /\ trouble' = TRUE /\ UNCHANGED image
    /\ bodyLen' = bodyLen - 1
    /\ Report(Progress(bodyLen'))
    /\ UNCHANGED <<pc, httpVars, onepart>>

BodyEnds ==
    /\ pc = "body" /\ BodyOver
    /\ pc' = "finish"
    /\ UNCHANGED <<streamVars, httpVars, progressVars, image, fileOpen, trouble>>

\* http.stop(), close(), "100", "update ok!!", reset.
Finish ==
    /\ pc = "finish"
    /\ fileOpen' = FALSE
    /\ Report({100})
    /\ pc' = "boot"
    /\ UNCHANGED <<streamVars, httpVars, bodyLen, onepart, image, trouble>>

-----------------------------------------------------------------------------
(* The server, the clock and the power. *)

\* The close of the server shows in the loops when the last symbol that came is
\* read: they read on as long as something is available.
ServerCloses ==
    /\ pc \in {"status", "headers", "body"} /\ ~closed
    /\ closed' = TRUE
    /\ trouble' = (trouble \/ pos < Len(resp))
    /\ UNCHANGED <<pc, resp, pos, quiet, httpVars, progressVars, image, fileOpen>>

\* The loops spin and see a timeout at once.
Tick ==
    /\ pc \in {"status", "headers", "body"} /\ ~TimedOut
    /\ quiet' = quiet + 1
    /\ trouble' = (trouble \/ (quiet' >= Patience /\ pos < Len(resp)))
    /\ UNCHANGED <<pc, resp, pos, closed, httpVars, progressVars, image, fileOpen>>

\* Of a file that is open the boot finds nothing or what was written so far.
PowerCut ==
    /\ pc # "boot"
    /\ pc' = "boot" /\ fileOpen' = FALSE /\ trouble' = TRUE
    /\ image' \in IF fileOpen THEN {<<>>, image} ELSE {image}
    /\ UNCHANGED <<streamVars, httpVars, progressVars>>

Whole == image # Old /\ HeadEnds(resp) # {} /\ Len(image) = Len(resp) - HeadLength(resp)

\* The device comes up with an image that is not torn.  Otherwise this is its end.
Boot ==
    /\ pc = "boot"
    /\ image = Old \/ Whole
    /\ pc' = "idle"
    /\ image' = Old /\ reported' = -1 /\ trouble' = FALSE
    /\ UNCHANGED <<streamVars, httpVars, bodyLen, onepart, fileOpen>>

Program ==
    \/ Delete \/ Create \/ Get \/ ReadStatus \/ StatusTimesOut \/ ReadHeader \/ HeadersTimeOut
    \/ ReadBody \/ BodyEnds \/ Finish

Next ==
    \/ OpenOld \/ Delete \/ Create \/ Get \/ ReadStatus \/ StatusTimesOut
    \/ ReadHeader \/ HeadersTimeOut \/ ReadBody \/ BodyEnds \/ Finish
    \/ ServerCloses \/ Tick \/ PowerCut \/ Boot

Spec == Init /\ [][Next]_vars

\* The program runs on and time passes.
FairSpec == Spec /\ WF_vars(Program) /\ WF_vars(Tick)

-----------------------------------------------------------------------------
(* What the update must achieve. *)

\* Every variable is in its range, the image holds positions of the response,
\* and nothing is counted that was not read (gwUpdateFirmware(), HttpClient).
TypeOK ==
    /\ pc \in {"idle", "delete", "create", "get", "status", "headers", "body", "finish", "boot"}
    /\ resp \in Responses /\ pos \in 0..Len(resp) /\ closed \in BOOLEAN
    /\ quiet \in 0..Patience
    /\ iState \in {"eIdle", "eRequestSent", "eReadingStatusCode", "eStatusCodeRead",
                   "eReadingContentLength", "eSkipToEndOfHeader", "eLineStartingCRFound",
                   "eReadingBody"}
    /\ iStatusCode \in Nat /\ iContentLength \in Nat /\ prefixRead \in {"start", "inside"}
    /\ bodyLen \in Int /\ onepart \in Nat
    /\ image = Old \/ image \in Seq(Nat)
    /\ fileOpen \in BOOLEAN /\ trouble \in BOOLEAN
    /\ reported \in {-1, 0, 25, 50, 75, 100}

\* However the response is cut, stalled or spelled and whichever write fails,
\* the file is a beginning of the body: no byte of a header is in it, and none
\* is missing in between.
ImageIsBody ==
    image # Old /\ pc \notin {"idle", "delete", "create", "get"} =>
        \A i \in DOMAIN image : HeadEnds(resp) # {} /\ image[i] = HeadLength(resp) + i

\* p % is published only when at least so much of the announced body has been
\* read, for every length, also those that four does not divide.
ProgressHonest ==
    [][ReadBody /\ reported' # reported =>
          100 * (iContentLength - bodyLen') >= reported' * iContentLength]_vars

\* When nothing outside of the program fails, a download that is carried to the
\* end of gwUpdateFirmware() has the whole body in the file, whatever headers
\* stand where, and whatever length they announce.
GoodUpdateComplete == pc = "finish" /\ ~trouble => Whole /\ fileOpen

\* A server that trickles, stalls or goes away does not hold the device for
\* ever: the update returns or resets.
UpdateEnds == (pc # "idle") ~> (pc \in {"idle", "boot"})
=============================================================================
