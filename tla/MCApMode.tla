------------------------------ MODULE MCApMode ------------------------------
(***************************************************************************)
(* Model checking of ApMode: short lines; lines of the largest length for  *)
(* which the index does not wrap; header lines that make it wrap, and go   *)
(* once around.  For the form also the length of the longest form that the *)
(* page lets through, 130 with the version's digit.                        *)
(***************************************************************************)
EXTENDS ApMode

MCLengths == [r \in {"page", "form", "abandon"} |-> IF r = "form" THEN {100, 128} ELSE {16}]
MCHeaders == {20, 128, 200, 300}
MCShort == {20}
MCLongest == [r \in {"page", "form", "abandon"} |-> IF r = "form" THEN {130} ELSE {16}]
=============================================================================
