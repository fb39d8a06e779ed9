----------------------------- MODULE MCVXEdDSA -----------------------------
(***************************************************************************)
(* An instance of VXEdDSA for TLC: 7 points of odd order, private keys of  *)
(* 6 bits.  Seed 0 gives a point with sign bit 0, seed 8 one with sign 1.  *)
(***************************************************************************)
EXTENDS VXEdDSA, TLC

SomeSeeds == {0, 8}
PointHash == {0, 3}
NonceHash == {0, 1, 3}
ChallengeHash == {1, 3}

Alike == Permutations(Messages) \cup Permutations(Randoms)
=============================================================================
