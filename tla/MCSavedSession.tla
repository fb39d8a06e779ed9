--------------------------- MODULE MCSavedSession ---------------------------
(***************************************************************************)
(* An instance of SavedSession for TLC: how often each party may send.     *)
(***************************************************************************)
EXTENDS SavedSession

Sends22 == [p \in {Alice, Bob} |-> 2]
=============================================================================
