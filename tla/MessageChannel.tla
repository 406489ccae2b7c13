--------------------------- MODULE MessageChannel ---------------------------
(***************************************************************************)
(* What an application may expect of the packets of one connection: those  *)
(* meant for it are handed over in the order they were sent, each once;    *)
(* the others, and those too long for the client's buffer, are passed      *)
(* over.  A connection that has lost its framing promises nothing until    *)
(* another one replaces it.                                                *)
(***************************************************************************)
EXTENDS Sequences

CONSTANTS
    Sendable,      \* the packets that may be sent
    Deliverable,   \* those among them that the application is handed
    None           \* the application handles nothing

VARIABLES
    pending,       \* packets sent and not yet dealt with, oldest first
    handed,        \* the packet the application is handling
    framed         \* the client still knows where packets begin

vars == <<pending, handed, framed>>

Init == pending = <<>> /\ handed = None /\ framed = TRUE

Send ==
    /\ framed
    /\ \E p \in Sendable : pending' = Append(pending, p)
    /\ UNCHANGED <<handed, framed>>

Deliver ==
    /\ framed /\ pending # <<>> /\ Head(pending) \in Deliverable
    /\ handed = None /\ handed' = Head(pending)
    /\ pending' = Tail(pending)
    /\ UNCHANGED framed

Handled ==
    /\ handed # None /\ handed' = None
    /\ UNCHANGED <<pending, framed>>

PassOver ==
    /\ framed /\ pending # <<>> /\ Head(pending) \notin Deliverable
    /\ pending' = Tail(pending)
    /\ UNCHANGED <<handed, framed>>

LoseFraming == framed /\ framed' = FALSE

Garble == ~framed /\ framed' = FALSE

Replace ==
    /\ framed' = TRUE /\ pending' = <<>>
    /\ UNCHANGED handed

Next == Send \/ Deliver \/ Handled \/ PassOver \/ LoseFraming \/ Garble \/ Replace

Spec == Init /\ [][Next]_vars
=============================================================================
