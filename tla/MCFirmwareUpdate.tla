-------------------------- MODULE MCFirmwareUpdate --------------------------
(***************************************************************************)
(* Model checking of FirmwareUpdate: bodies of up to nine bytes, among     *)
(* them a length four does not divide, and one shorter and one longer than *)
(* announced; headers before and after the length, none at all, and two;   *)
(* a response without a blank line the parser knows, and one that follows  *)
(* an informational one.                                                   *)
(***************************************************************************)
EXTENDS FirmwareUpdate

Sym(class) == [c |-> class, v |-> 0]
Dig(n) == [c |-> "digit", v |-> n]
Eol == <<Sym("CR"), Sym("LF")>>

StatusLine(a, b, c) == <<Sym("prefix"), Dig(a), Dig(b), Dig(c), Sym("char")>> \o Eol
Announce(n) ==
    <<Sym("name")>> \o (IF n < 10 THEN <<Dig(n)>> ELSE <<Dig(n \div 10), Dig(n % 10)>>) \o Eol
Connection == <<Sym("part"), Sym("char")>> \o Eol
Server == <<Sym("char"), Dig(3), Sym("name")>> \o Eol
Body(n) == [i \in 1..n |-> Sym("byte")]

Ok(headers, n) == StatusLine(2, 0, 0) \o headers \o Eol \o Body(n)

MCResponses ==
    {Ok(Announce(8), 8), Ok(Connection \o Announce(7) \o Server, 7), Ok(Announce(2), 2),
     Ok(Announce(5) \o Announce(9), 9), Ok(Announce(10), 6), Ok(Announce(4), 6),
     Ok(Server, 3), StatusLine(4, 0, 4) \o Announce(1) \o Eol \o Body(1),
     StatusLine(2, 0, 0) \o Announce(3) \o <<Sym("LF")>> \o Body(3),
     StatusLine(1, 0, 0) \o Eol \o Ok(Announce(4), 4),
     StatusLine(1, 0, 0) \o Ok(Announce(4), 4)}
=============================================================================
