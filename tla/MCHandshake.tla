---------------------------- MODULE MCHandshake ----------------------------
(***************************************************************************)
(* An instance of Handshake for TLC: all sessions are begun by one user.   *)
(***************************************************************************)
EXTENDS Handshake

OneOwner == [a \in Initiators |-> "alice"]
=============================================================================
