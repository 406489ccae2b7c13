---------------------------- MODULE AtomicConfig ----------------------------
(***************************************************************************)
(* What a configuration kept in flash should look like from outside: it is *)
(* one the user saved, possibly sent on to another server, or it is of no  *)
(* use for joining any network.  Power cuts may lose it, never mix it, and *)
(* only the user makes a lost one good again.                              *)
(***************************************************************************)
CONSTANTS Users, Servers, HomeOf, Unusable

VARIABLE cfg

Configs == [owner : Users, server : Servers]

Init == cfg \in Configs \cup {Unusable}

Save == \E u \in Users : cfg' = [owner |-> u, server |-> HomeOf[u]]

Redirect == cfg # Unusable /\ \E s \in Servers : cfg' = [cfg EXCEPT !.server = s]

Lose == cfg' = Unusable

Next == Save \/ Redirect \/ Lose

Spec == Init /\ [][Next]_cfg
=============================================================================
