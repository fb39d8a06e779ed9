---------------------------- MODULE SavedSession ----------------------------
(***************************************************************************)
(* Session with hosts that save their sessions (ratchet_serialize) and     *)
(* start again from the saved copy (ratchet_deserialize) after a crash, or *)
(* when the Android interface returned null.                               *)
(*                                                                         *)
(* The library leaves it to the host when to save.  The hosts of this      *)
(* module keep to two rules:                                               *)
(*   - a message goes out only after a save that knows of its encrypt;     *)
(*   - after a null for which the session may have moved, there is no save *)
(*     before the next start from the copy.                                *)
(* They stay within the limits: what encrypt and decrypt do beyond them is *)
(* in Session.  A call that is refused leaves all this as it is.           *)
(***************************************************************************)
EXTENDS Session

CONSTANT
    MaxMishaps      \* bound: how many crashes and nulls there are

ASSUME MishapAssumption == MaxMishaps \in Nat

VARIABLES
    saved,      \* what each host has on its disk
    outbox,     \* the message of each party that is encrypted and not sent
    lost,       \* whether a plaintext was lost on its way to the host
    pairs,      \* how many key pairs each party has drawn
    mishaps     \* history: number of crashes and nulls

hostVars == <<saved, outbox, lost, pairs, mishaps>>
savedVars == <<vars, hostVars>>

(***************************************************************************)
(* The serialized session: fields as they are, except for the skipped      *)
(* keys, a JSON map cannot have pairs as keys: they become a sequence of   *)
(* entries, in the order of the hash map, hence a set.                     *)
(***************************************************************************)
Serialized(s) == [s EXCEPT !.mkskipped = {<<k, @[k]>> : k \in DOMAIN @}]

\* Mutations: fields that are skipped by the serialization.
WithoutNonceCounter(j) ==
    [j EXCEPT !.mkskipped = [k \in {e[1] : e \in @} |-> (CHOOSE e \in @ : e[1] = k)[2]],
              !.header_nonce_counter = 0]

WithoutNumbers(j) ==
    [j EXCEPT !.mkskipped = [k \in {e[1] : e \in @} |-> (CHOOSE e \in @ : e[1] = k)[2]],
              !.nr = 0]

WithoutSkipped(j) == [j EXCEPT !.mkskipped = EmptyStore]

(***************************************************************************)
(* deserialize_skipped_map inserts the entries one by one.                 *)
(***************************************************************************)
Deserialized(j) ==
    [j EXCEPT !.mkskipped = [k \in {e[1] : e \in @} |-> (CHOOSE e \in @ : e[1] = k)[2]]]

SavedInit ==
    /\ Init
    /\ saved = [p \in Party |-> Serialized(state[p])]
    /\ outbox = [p \in Party |-> None]
    /\ lost = [p \in Party |-> FALSE]
    /\ pairs = [p \in Party |-> state[p].dh_pair[2]]
    /\ mishaps = 0

-----------------------------------------------------------------------------
Save(p) ==
    /\ ~lost[p]
    /\ saved' = [saved EXCEPT ![p] = Serialized(state[p])]
    /\ UNCHANGED <<vars, outbox, lost, pairs, mishaps>>

EncryptToOutbox(p) ==
    /\ MaySend(p)
    /\ outbox[p] = None
    /\ EncryptError(state[p], "fits") = None
    /\ outbox' = [outbox EXCEPT ![p] = Packet(state[p])]
    /\ state' = [state EXCEPT ![p] = AfterEncrypt(@)]
    /\ UNCHANGED <<handed, saved, lost, pairs, mishaps>>

Send(p) ==
    /\ outbox[p] # None
    /\ saved[p].header_nonce_counter > outbox[p].nonce.counter
    /\ handed' = [m \in Sent \cup {outbox[p]} |-> IF m \in Sent THEN handed[m] ELSE 0]
    /\ outbox' = [outbox EXCEPT ![p] = None]
    /\ UNCHANGED <<state, saved, lost, pairs, mishaps>>

NewKey(p) == Key(p, pairs[p] + 1)

(***************************************************************************)
(* The key pair that a decrypt with a DH ratchet draws is new, also after  *)
(* a start from a copy.                                                    *)
(***************************************************************************)
DrawsPair(p) ==
    pairs' = [pairs EXCEPT ![p] = IF state'[p].dh_pair = state[p].dh_pair THEN @ ELSE @ + 1]

DecryptHanded(p, m) ==
    /\ \/ DecryptWithSkippedKey(p, m)
       \/ DecryptOnChain(p, m, NewKey(p))
    /\ DrawsPair(p)
    /\ UNCHANGED <<saved, outbox, lost, mishaps>>

(***************************************************************************)
(* ratchetDecrypt of the Android interface, if no Java array can be made   *)
(* of the plaintext: the session has moved, the host gets null as it does  *)
(* for every error.                                                        *)
(***************************************************************************)
DecryptedNull(p, m) ==
    /\ mishaps < MaxMishaps
    /\ mishaps' = mishaps + 1
    /\ \/ /\ SkippedKeyOpens(state[p], m, "none")
          /\ state' = [state EXCEPT ![p] = WithoutSkippedKey(@, m)]
       \/ /\ Authentic(p, m)
          /\ ~PreviousChainRefused(state[p], m)
          /\ LET next == Committed(state[p], m, NewKey(p))
             IN  state' = [state EXCEPT ![p] = IF ReceivedFull(next) THEN next
                                               ELSE Tracked(next, m)]
    /\ lost' = [lost EXCEPT ![p] = TRUE]
    /\ DrawsPair(p)
    /\ UNCHANGED <<handed, saved, outbox>>

(***************************************************************************)
(* A crash, a panic (which aborts the process) or a null: the session in   *)
(* memory is gone, with what was encrypted and not sent.                   *)
(***************************************************************************)
Restart(p) ==
    /\ lost[p] \/ mishaps < MaxMishaps
    /\ state' = [state EXCEPT ![p] = Deserialized(saved[p])]
    /\ outbox' = [outbox EXCEPT ![p] = None]
    /\ lost' = [lost EXCEPT ![p] = FALSE]
    /\ mishaps' = IF lost[p] THEN mishaps ELSE mishaps + 1
    /\ UNCHANGED <<handed, saved, pairs>>

SavedNext ==
    \/ \E p \in Party :
          \/ Save(p)
          \/ EncryptToOutbox(p)
          \/ Send(p)
          \/ Restart(p)
    \/ \E p \in Party, m \in Sent :
          \/ DecryptHanded(p, m)
          \/ DecryptedNull(p, m)

SavedSpec == SavedInit /\ [][SavedNext]_savedVars

-----------------------------------------------------------------------------
(***************************************************************************)
(* No restart makes a nonce or a message key be used again: what waits in  *)
(* the outbox has neither in common with a message sent before, although   *)
(* the session it was encrypted in may be an old copy.                     *)
(***************************************************************************)
NothingUsedTwice ==
    \A p \in Party : outbox[p] # None =>
        \A m \in Sent : m.nonce # outbox[p].nonce /\ m.mk # outbox[p].mk

(***************************************************************************)
(* No message is lost by a crash or a null: one that has not been handed   *)
(* over opens in the session, or in the copy the host can start from.      *)
(***************************************************************************)
Readable(s, m) ==
    /\ DecryptError(s, m, "none") = None
    /\ SkippedKeyOpens(s, m, "none") \/ ~PreviousChainRefused(s, m)

SavedCopyRecovers ==
    \A m \in Sent : handed[m] = 0 =>
        LET p == Peer(Sender(m))
        IN  Readable(state[p], m) \/ Readable(Deserialized(saved[p]), m)

(***************************************************************************)
(* What a copy of a session leads to: the root keys of up to two DH        *)
(* ratchets with the copy's own key pair and any public key, the chains    *)
(* under them, the chains it holds from where they stand, the keys stored. *)
(***************************************************************************)
PublicKeys == {Key(p, i) : p \in Party, i \in 0 .. Max({pairs[p] : p \in Party})}

NextRoots(c, roots) == {KdfRkHe(rk, DH(c.dh_pair, k)).rk : rk \in roots, k \in PublicKeys}

RootsFrom(c) ==
    LET once == NextRoots(c, {c.rk})
    IN  once \cup NextRoots(c, once)

Reveals(c, mk) ==
    \/ \E e \in c.mkskipped : e[2].mk = mk
    \/ mk[2] \in RootsFrom(c)
    \/ \E ck \in {c.ck_s, c.ck_r} \ {None} : ck[1] = mk[2] /\ ck[2] <= mk[3]

(***************************************************************************)
(* Forward secrecy of the saved copy on the sending side: it does not lead *)
(* to the key of a message that had been encrypted when it was made, in    *)
(* whatever chain.                                                         *)
(***************************************************************************)
SentStaySecret ==
    \A p \in Party, m \in Sent :
        Sender(m) = p /\ m.nonce.counter < saved[p].header_nonce_counter
            => ~Reveals(saved[p], m.mk)

=============================================================================
