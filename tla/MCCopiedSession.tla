-------------------------- MODULE MCCopiedSession --------------------------
(***************************************************************************)
(* An instance of CopiedSession for TLC: how often each party may send.    *)
(***************************************************************************)
EXTENDS CopiedSession

Sends22 == [p \in {Alice, Bob} |-> 2]
=============================================================================
