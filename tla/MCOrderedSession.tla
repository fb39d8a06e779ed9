-------------------------- MODULE MCOrderedSession --------------------------
(***************************************************************************)
(* Instances of OrderedSession for TLC: how often each party may send.     *)
(***************************************************************************)
EXTENDS OrderedSession

Sends44 == [p \in {Alice, Bob} |-> 4]
=============================================================================
