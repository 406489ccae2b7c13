--------------------------- MODULE MCMqttFraming ---------------------------
(***************************************************************************)
(* Model checking of MqttFraming with the sizes of the code: packets at    *)
(* the length of the buffer, at each change of the number of digits, and   *)
(* at the end of 16 bits.                                                  *)
(***************************************************************************)
EXTENDS MqttFraming

Pub(qos, size) ==
    [kind |-> "publish", qos |-> qos, id |-> 7 * qos, topic |-> 60, payload |-> size]

\* The remaining length of Pub(0, n) is n + 62, of Pub(1, n) n + 64.
MCIncoming ==
    {Pub(0, 0), Pub(0, 65), Pub(1, 64),
     Pub(0, 1983), Pub(1, 1981), Pub(1, 1982),
     Pub(0, 16321), Pub(0, 16322), Pub(0, 65470), Pub(1, 65536)}
        \cup {[kind |-> "other", qos |-> 0, id |-> 0, topic |-> 0, payload |-> n] : n \in {0, 3}}
=============================================================================
