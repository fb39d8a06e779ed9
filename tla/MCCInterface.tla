---------------------------- MODULE MCCInterface ----------------------------
(***************************************************************************)
(* An instance of CInterface for TLC: addresses and sessions are alike.    *)
(***************************************************************************)
EXTENDS CInterface, TLC

Alike == Permutations(Addresses) \cup Permutations(Sessions)
=============================================================================
