--------------------------- MODULE MCConfigStore ---------------------------
(***************************************************************************)
(* Model checking of ConfigStore: two users with their own servers, one of *)
(* them on an open network, and a third server to be sent to.              *)
(***************************************************************************)
EXTENDS ConfigStore

CONSTANTS ann, bob, s1, s2, s3

MCHomeOf == [u \in {ann, bob} |-> IF u = ann THEN s1 ELSE s2]
=============================================================================
