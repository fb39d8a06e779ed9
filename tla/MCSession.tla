----------------------------- MODULE MCSession -----------------------------
(***************************************************************************)
(* Instances of Session for TLC: how often each party may send.            *)
(***************************************************************************)
EXTENDS Session

Sends(a, b) == [p \in {Alice, Bob} |-> IF p = Alice THEN a ELSE b]

Sends41 == Sends(4, 1)
Sends42 == Sends(4, 2)
Sends53 == Sends(5, 3)
Sends44 == Sends(4, 4)
=============================================================================
