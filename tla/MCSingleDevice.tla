--------------------------- MODULE MCSingleDevice ---------------------------
(***************************************************************************)
(* Model checking of SingleDevice: userids of one and two digits that      *)
(* change from one registration to the next, a read and a write of one     *)
(* point, and local structs that are clean or hold the end of an earlier   *)
(* command.  The devindex is 24 characters long, as the form page wants    *)
(* it, and the epindex 6, as in "cc3200"; who asks has a userid, devindex  *)
(* and offsetindex of full length.                                         *)
(***************************************************************************)
EXTENDS SingleDevice

Text(n) == [i \in 1..n |-> "d"]

MCDev == Text(24)
MCEp == Text(6)
MCUserids == {<<"7">>, <<"4", "2">>}
MCLeftovers == {<<Nul, Nul, Nul>>, <<Nul, "6", Nul>>}
MCRests == {<<<<>>>>, <<<<"6">>, <<"6">>>>}
MCSources == {Text(14), <<>>}
MCAskers == {[dev |-> Text(24), off |-> Text(14), ep |-> Text(6)]}
MCPoints == {<<"1">>}
MCValues == {<<"1">>}
=============================================================================
