-------------------------- MODULE MCGatewaySession --------------------------
(***************************************************************************)
(* Model checking of GatewaySession: two sub-devices, of which the second  *)
(* may come and go between sessions and swap its address with the first,   *)
(* and gateway userids that change from one registration to the next.      *)
(* Where the decoders put an address the stack may hold nothing that goes  *)
(* on with it, a digit behind it, or a digit that it overwrites.           *)
(***************************************************************************)
EXTENDS GatewaySession

CONSTANTS gw, dev1, dev2, u1, u2, v1, v2

Row(dev, addr, user) == [dev |-> dev, addr |-> addr, user |-> user]

addr1 == <<"1">>
addr2 == <<"2">>

MCRows == {Row(dev1, addr1, v1), Row(dev2, addr2, v2), Row(dev1, addr2, v1), Row(dev2, addr1, v2)}

MCTables == {<<Row(dev1, addr1, v1)>>,
             <<Row(dev1, addr2, v1), Row(dev2, addr1, v2)>>}

MCLeftovers == {<<Nul, Nul>>, <<Nul, "2">>, <<"2", Nul>>}

MCGatewayAddr == <<"0">>
=============================================================================
