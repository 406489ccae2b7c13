----------------------------- MODULE TopicCodec -----------------------------
(***************************************************************************)
(* The topics of a single device (singleDevLib/MsgHandler.cpp and          *)
(* sdTopicParse(), sdAckDecode() of QiaqiaMqttSingleDevice.cpp).  Every    *)
(* encoder prints into a static buffer of its own with sprintf(); what     *)
(* matters of a topic is how long it becomes and which texts go into it.   *)
(***************************************************************************)
EXTENDS Integers, Sequences

Room_AsRegistration ==
    [ackuserid |-> 50, register |-> 50, read |-> 50, write |-> 50,
     valuechange |-> 50, ack |-> 50, updatestate |-> 50, devack |-> 50]

\* The static buffers, by the kind of the topic.
Room == [ackuserid |-> 50, register |-> 50, read |-> 80, write |-> 80,
         valuechange |-> 120, ack |-> 120, updatestate |-> 120, devack |-> 80]

\* A topic and the 0 after it fit the buffer of its kind.
Fits(kind, length) == length < Room[kind]

\* "s/1/0/0/%s/%s/+/0/0/ackuserid", of an epindex and a devindex
AckuseridLength(ep, dev) == 25 + Len(ep) + Len(dev)

\* "c/1/0/0/%s/%s/0/0/0/register"
RegisterLength(ep, dev) == 24 + Len(ep) + Len(dev)

\* "s/1/+/0/+/%s/+/%s/+/read", of a devindex and a userid
ReadLength(dev, user) == 20 + Len(dev) + Len(user)

\* "s/1/+/0/+/%s/+/%s/+/write"
WriteLength(dev, user) == 21 + Len(dev) + Len(user)

\* "c/1/%s/0/%s/%s/0/%s/%s/valuechange": the userid is both source and target.
ValuechangeLength(user, ep, dev, point) ==
    24 + 2 * Len(user) + Len(ep) + Len(dev) + Len(point)

\* "c/1/%s/1/%s/%s/0/%s/%s/ack", to who asked
AckLength(user, to) ==
    16 + Len(user) + Len(to.ep) + Len(to.dev) + Len(to.user) + Len(to.off)

\* "c/1/%s/0/%s/%s/0/%s/%s/updatestate", for 1005
UpdateStatusLength(user, ep, dev) == 28 + 2 * Len(user) + Len(ep) + Len(dev)

-----------------------------------------------------------------------------
(* The acknowledgement data a read command leaves with the application.    *)

AckEncode_NoEnd(src, from, point) == <<src, from.dev, from.off, point, from.ep>>

\* "%s/%s/%s/%s/%s/" as the texts between the slashes; the last slash ends
\* the fifth.
AckEncode(src, from, point) == <<src, from.dev, from.off, point, from.ep, <<>>>>

\* The characters between the slashes of devack.
AckCharacters(pieces) ==
    Len(pieces[1]) + Len(pieces[2]) + Len(pieces[3]) + Len(pieces[4]) + Len(pieces[5]) + 5

\* The data copied to the front of an array that still holds rest: no 0 is
\* written, so the first text of rest continues the last piece.
Followed(pieces, rest) ==
    SubSeq(pieces, 1, Len(pieces) - 1) \o <<pieces[Len(pieces)] \o Head(rest)>> \o Tail(rest)

\* sdAckDecode(): piece i, if a slash ends it and none of the first three
\* before it is empty.  (The tests of the fourth and fifth compare an array
\* with 0 and never return.)
Piece(pieces, i) ==
    IF i < Len(pieces) /\ \A j \in 1..3 : j < i => pieces[j] # <<>>
    THEN pieces[i]
    ELSE <<>>

AckDecode(pieces) ==
    [user |-> Piece(pieces, 1), dev |-> Piece(pieces, 2), off |-> Piece(pieces, 3),
     point |-> Piece(pieces, 4), ep |-> Piece(pieces, 5)]

-----------------------------------------------------------------------------
\* sdTopicParse() and mqtt_get_type(): a topic with an empty level, as the
\* source of a command may be, is given up before its last level is read, and
\* the command has no type.
TypeOf(msg) == IF msg.src = <<>> THEN "none" ELSE msg.cmd
=============================================================================
