--------------------------- MODULE CopiedSession ---------------------------
(***************************************************************************)
(* SavedSession, where a saved session is copied off a disk at some time   *)
(* and kept while the two parties go on: a backup, or the copy of somebody *)
(* who has broken in once.  Who has it cannot do more than derive keys.    *)
(*                                                                         *)
(* The repository's README.md promises break-in recovery: a compromise is  *)
(* "automatically healed after the next DH ratchet step".                  *)
(***************************************************************************)
EXTENDS SavedSession

VARIABLE
    copied      \* the copy of each party's session, None if there is none

copiedVars == <<savedVars, copied>>

CopiedInit ==
    /\ SavedInit
    /\ copied = [p \in Party |-> None]

(***************************************************************************)
(* One copy of each party's session is enough: it may be taken at any time.*)
(***************************************************************************)
CopyDisk(p) ==
    /\ copied[p] = None
    /\ copied' = [copied EXCEPT ![p] = saved[p]]
    /\ UNCHANGED savedVars

CopiedNext ==
    \/ SavedNext /\ UNCHANGED copied
    \/ \E p \in Party : CopyDisk(p)

CopiedSpec == CopiedInit /\ [][CopiedNext]_copiedVars

-----------------------------------------------------------------------------
(***************************************************************************)
(* What a copy leads to, followed for three DH ratchets: those of the      *)
(* party, of the peer and of the party again that heal the session.        *)
(***************************************************************************)
LeadsOn(c, mk) ==
    \/ Reveals(c, mk)
    \/ mk[2] \in NextRoots(c, NextRoots(c, NextRoots(c, {c.rk})))

(***************************************************************************)
(* Once a party has ratcheted with a key pair drawn after the copy was     *)
(* made, the copy leads to none of the messages that the party encrypts.   *)
(***************************************************************************)
CopyHeals ==
    \A p \in Party : copied[p] # None =>
        (state[p].dh_pair[2] > copied[p].dh_pair[2]
            => ~LeadsOn(copied[p], KdfCk(state[p].ck_s).mk))

(***************************************************************************)
(* Once the peer has ratcheted on such a key pair, the copy leads to none  *)
(* of the messages that the peer encrypts, either.                         *)
(***************************************************************************)
PeerHeals ==
    \A p \in Party : copied[p] # None =>
        LET o == state[Peer(p)]
        IN  o.dh_remote # None =>
               (o.dh_remote[2] > copied[p].dh_pair[2]
                   => ~LeadsOn(copied[p], KdfCk(o.ck_s).mk))

=============================================================================
