----------------------------- MODULE MCSkipLoop -----------------------------
(***************************************************************************)
(* Instances of SkipLoop for TLC.  AnyClock: the clock moves on, stands    *)
(* still, or goes back by one or by two.                                   *)
(***************************************************************************)
EXTENDS SkipLoop

AnyClock == {-2, -1, 0, 1}
=============================================================================
