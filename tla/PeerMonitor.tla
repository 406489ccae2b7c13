----------------------------- MODULE PeerMonitor -----------------------------
(***************************************************************************)
(* What the keep-alive of the MQTT client promises, with no timers and no  *)
(* packets: a monitor of the broker that trusts it, probes it, and         *)
(* suspects it only after a probe, and only when it is really gone.        *)
(***************************************************************************)
VARIABLES
    mon,        \* off, trusting, probing
    peer,       \* none, live, dead
    suspected   \* the last connection ended because the broker was silent

vars == <<mon, peer, suspected>>

Peers == {"none", "live", "dead"}

Init == mon = "off" /\ peer = "none" /\ suspected = FALSE

Dial ==
    /\ mon = "off"
    /\ peer' \in {"live", "dead"}
    /\ UNCHANGED <<mon, suspected>>

Open ==
    /\ mon = "off" /\ peer # "none"
    /\ mon' = "trusting" /\ suspected' = FALSE
    /\ UNCHANGED peer

\* An attempt that comes to nothing.  It counts as silence only if the broker
\* did not answer.
Fail ==
    /\ mon = "off"
    /\ peer' = "none"
    /\ suspected' \in BOOLEAN
    /\ (suspected' /\ ~suspected) => peer # "live"
    /\ UNCHANGED mon

Probe == mon = "trusting" /\ mon' = "probing" /\ UNCHANGED <<peer, suspected>>

Answer == mon = "probing" /\ mon' = "trusting" /\ UNCHANGED <<peer, suspected>>

Suspect ==
    /\ mon = "probing" /\ peer = "dead"
    /\ mon' = "off" /\ peer' = "none" /\ suspected' = TRUE

\* The connection breaks, or the application ends it.
Break ==
    /\ peer # "none"
    /\ mon' = "off" /\ peer' = "none"
    /\ UNCHANGED suspected

Die == peer = "live" /\ peer' = "dead" /\ UNCHANGED <<mon, suspected>>

Next == Dial \/ Open \/ Fail \/ Probe \/ Answer \/ Suspect \/ Break \/ Die

Spec == Init /\ [][Next]_vars
=============================================================================
