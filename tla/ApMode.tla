------------------------------- MODULE ApMode -------------------------------
(***************************************************************************)
(* AP mode of the gateway (gatewayLib/QiaqiaMqttGateway.cpp,               *)
(* gwAPModeConfig()): the web server that shows the form and takes it      *)
(* back.  The outer loop looks at the two windows and for a client; the    *)
(* inner loop reads the client's request byte by byte into a buffer, with  *)
(* a signed byte for an index, until a blank line or until the client is   *)
(* gone.  Only a reset leaves AP mode.                                     *)
(***************************************************************************)
EXTENDS Integers

CONSTANTS
    Window,          \* ticks for somebody to come (60 s)
    LongWindow,      \* ticks once a page was served (600 s)
    IndexMax,        \* the largest value of the index (int8_t: 127)
    BufferSize,      \* char buffer[200]
    RequestLengths,  \* lengths of request lines, of each kind
    HeaderLengths,
    MaxHeaders       \* header lines of one request

ASSUME WindowAssumption == Window \in Nat /\ LongWindow \in Nat /\ Window <= LongWindow
ASSUME HeadersAssumption == MaxHeaders \in Nat
ASSUME IndexAssumption == IndexMax \in Nat /\ BufferSize \in Nat /\ IndexMax < BufferSize
ASSUME LengthAssumption ==
    /\ RequestLengths \in [{"page", "form", "abandon"} -> SUBSET (Nat \ {0, 1})]
    /\ HeaderLengths \subseteq Nat \ {0}

VARIABLES
    at,         \* outer loop, inner loop, reset
    age,        \* age of apConfigStart, up to the end of the long window
    isLoop,     \* IsLoop = 1: a page was served
    resetflag,  \* 0 none, 1 saved, 2 abandoned, 3 not saved
    index,      \* i
    held,       \* characters of the line that the buffer holds, from its start
    request,    \* what the client wants: the page, to send the form, to abandon
    line,       \* the line the client is sending: request, header, blank
    len,        \* its length
    read,       \* what was read of it, one more after the carriage return
    headers,    \* header lines so far
    stray,      \* a character of this client was written outside of the buffer
    saves       \* how often this client's form was saved, counted to 2

lineVars == <<index, held, line, len, read, headers>>
vars == <<at, age, isLoop, resetflag, request, stray, saves, lineVars>>

Requests == {"page", "form", "abandon"}

-----------------------------------------------------------------------------
WindowOver_FirstOnly == ~isLoop /\ age > Window

\* The tests at the head of the outer loop.
WindowOver == (~isLoop /\ age > Window) \/ age > LongWindow

NextIndex_Widened(i) == i + 1

\* i++ of a signed byte.
NextIndex(i) == IF i = IndexMax THEN -(IndexMax + 1) ELSE i + 1

LineStart_Kept == index

InBuffer(i) == i \in 0..(BufferSize - 1)

\* The index at the beginning of a line.
LineStart == 0

EndsRequest_Contains(h) == h >= len - 1

\* text.endsWith("HTTP/1.") once the buffer holds h characters of a request
\* line: only the last digit of the version is missing.
EndsRequest(h) == h = len - 1

\* What a byte other than a newline makes of the request: a form is saved, or
\* its file cannot be created; abandon is noted; any other request waits for
\* its blank line.
Look(h) ==
    IF line = "request" /\ EndsRequest(h) /\ request # "page"
    THEN /\ resetflag' \in IF request = "form" THEN {1, 3} ELSE {2}
         /\ saves' = IF request = "form" /\ saves < 2 THEN saves + 1 ELSE saves
    ELSE UNCHANGED <<resetflag, saves>>

\* myClient.stop(), and the reset if the request asked for one.
ClientDone == at' = IF resetflag # 0 THEN "reset" ELSE "outer"

Init ==
    /\ at = "outer" /\ age = 0 /\ isLoop = FALSE /\ resetflag = 0
    /\ index = 0 /\ held = 0
    /\ request = "page" /\ line = "blank" /\ len = 0 /\ read = 0 /\ headers = 0
    /\ stray = FALSE /\ saves = 0

-----------------------------------------------------------------------------
(* The outer loop. *)

WindowResets ==
    /\ at = "outer" /\ WindowOver
    /\ at' = "reset"
    /\ UNCHANGED <<age, isLoop, resetflag, request, stray, saves, lineVars>>

\* MyServer.available() returns a client.
AcceptClient ==
    /\ at = "outer" /\ ~WindowOver
    /\ at' = "inner"
    /\ resetflag' = 0 /\ index' = 0 /\ held' = 0
    /\ request' \in Requests
    /\ line' = "request" /\ len' \in RequestLengths[request'] /\ read' = 0 /\ headers' = 0
    /\ stray' = FALSE /\ saves' = 0
    /\ UNCHANGED <<age, isLoop>>

-----------------------------------------------------------------------------
(* The inner loop. *)

\* A character of the line: buffer[i++] = c.  Once the index has wrapped it
\* lands before the buffer, on whatever the compiler put there.
ReadChar ==
    /\ at = "inner" /\ read < len
    /\ read' = read + 1
    /\ index' = NextIndex(index)
    /\ held' = IF index = held THEN held + 1 ELSE held
    /\ stray' = (stray \/ ~InBuffer(index))
    /\ Look(held')
    /\ UNCHANGED <<at, age, isLoop, request, line, len, headers>>

\* The carriage return is not stored, but the text is looked at again.
ReadReturn ==
    /\ at = "inner" /\ read = len
    /\ read' = read + 1
    /\ Look(held)
    /\ UNCHANGED <<at, age, isLoop, request, stray, index, held, line, len, headers>>

\* The newline of a line that was not blank.
ReadNewline ==
    /\ at = "inner" /\ read = len + 1 /\ held # 0
    /\ index' = LineStart /\ held' = 0 /\ read' = 0
    /\ \/ line' = "blank" /\ len' = 0 /\ UNCHANGED headers
       \/ headers < MaxHeaders /\ headers' = headers + 1 /\ line' = "header" /\ len' \in HeaderLengths
    /\ UNCHANGED <<at, age, isLoop, resetflag, request, stray, saves>>

\* The newline of a blank line: a page is sent, chosen by resetflag.
SendPage ==
    /\ at = "inner" /\ read = len + 1 /\ held = 0
    /\ isLoop' = TRUE
    /\ ClientDone
    /\ UNCHANGED <<age, resetflag, request, stray, saves, lineVars>>

\* myClient.connected() is false.
ClientLeaves ==
    /\ at = "inner"
    /\ ClientDone
    /\ UNCHANGED <<age, isLoop, resetflag, request, stray, saves, lineVars>>

-----------------------------------------------------------------------------
\* The gateway starts again and finds its way back to AP mode.
Reboot ==
    /\ at = "reset"
    /\ at' = "outer" /\ age' = 0 /\ isLoop' = FALSE /\ resetflag' = 0
    /\ UNCHANGED <<request, stray, saves, lineVars>>

\* Time passes.  The outer loop spins and sees a window end at once; the inner
\* loop looks at no clock.
Tick ==
    /\ at = "outer" => ~WindowOver
    /\ at # "reset"
    /\ age' = IF age > LongWindow THEN age ELSE age + 1
    /\ UNCHANGED <<at, isLoop, resetflag, request, stray, saves, lineVars>>

Next ==
    \/ WindowResets \/ AcceptClient
    \/ ReadChar \/ ReadReturn \/ ReadNewline \/ SendPage \/ ClientLeaves
    \/ Reboot \/ Tick

Spec == Init /\ [][Next]_vars

\* The outer loop runs and time passes.  Nothing is asked of a client: it may
\* stop in the middle of its request and stay connected for ever.
Fairness == WF_vars(WindowResets) /\ WF_vars(Tick)

FairSpec == Spec /\ Fairness

-----------------------------------------------------------------------------
(* What AP mode must achieve. *)

\* Every variable is in its range; the index is a signed byte, whatever the
\* lines are that clients send (gwAPModeConfig()).
TypeOK ==
    /\ at \in {"outer", "inner", "reset"}
    /\ isLoop \in BOOLEAN /\ resetflag \in 0..3
    /\ age \in 0..(LongWindow + 1)
    /\ index \in -(IndexMax + 1)..IndexMax
    /\ held \in Nat /\ len \in Nat /\ read \in 0..(len + 1)
    /\ request \in Requests /\ line \in {"request", "header", "blank"}
    /\ headers \in 0..MaxHeaders /\ stray \in BOOLEAN /\ saves \in 0..2

\* Which characters are written outside of the buffer: of every line, whatever
\* lines and clients came before, those beyond the largest index and no other,
\* until the index has gone once around.
LeavesBeyondIndex ==
    [][ReadChar /\ read <= 2 * IndexMax + 1 => (InBuffer(index) <=> read <= IndexMax)]_vars

Honoured ==
    /\ request = "form" => resetflag \in {1, 3} /\ saves = 1
    /\ request = "abandon" => resetflag = 2 /\ saves = 0
    /\ request = "page" => resetflag = 0 /\ saves = 0

\* The page that ends a visit tells of what was asked: a form was saved, or
\* tried to be, exactly once however its bytes came; an abandon is known as
\* one, and who only looks does not cause a reset.  Nothing is promised to a
\* visit that wrote outside of the buffer.
RequestHonoured == [][SendPage /\ ~stray => Honoured]_vars

\* A gateway does not stay an access point: it resets and tries its network
\* again, whoever visits it, for however long and however often.  Excepted is
\* the client that never leaves: the inner loop has no timer (ApRestarts).
ApEnds == []<>(at # "inner") => ((at # "reset") ~> (at = "reset"))

(* What the repository says of it, and the code does not do. *)

\* "More than ten minutes in AP config: leave and restart" (204).
ApRestarts == (at # "reset") ~> (at = "reset")

\* The form page admits a devindex and a key of 24 characters and a network
\* name and password of 15: such a form is saved (128 characters fit i).
FormTaken == [][SendPage /\ request = "form" => resetflag # 0]_vars
=============================================================================
