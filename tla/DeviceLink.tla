----------------------------- MODULE DeviceLink -----------------------------
(***************************************************************************)
(* What the cloud may rely on from a gateway: it serves only on a list of  *)
(* sub-devices granted in the present connection, and reports nothing but  *)
(* sub-devices of that list.  A new connection starts without a grant.     *)
(***************************************************************************)
CONSTANTS Rows, NoMsg

VARIABLES
    link,     \* off, linked, serving
    grant,    \* the sub-devices granted in this connection
    sent      \* the sub-device of the last report

vars == <<link, grant, sent>>

Init == link = "off" /\ grant = {} /\ sent = NoMsg

Connect ==
    /\ link = "off"
    /\ link' = "linked"
    /\ UNCHANGED <<grant, sent>>

Grant ==
    /\ link = "linked"
    /\ link' = "serving" /\ grant' \in (SUBSET Rows) \ {{}}
    /\ UNCHANGED sent

Report ==
    /\ link = "serving"
    /\ sent' \in grant
    /\ UNCHANGED <<link, grant>>

Break ==
    /\ link # "off"
    /\ link' = "off" /\ grant' = {}
    /\ UNCHANGED sent

Next == Connect \/ Grant \/ Report \/ Break

Spec == Init /\ [][Next]_vars
=============================================================================
